---- MODULE Spec2Model ----
(***************************************************************************)
(* daily_stock_analysis: the fetcher manager's failover and Quote routing  *)
(* (data_provider/base.py), the snapshot caches and circuit breaker use of *)
(* the quote paths (akshare_fetcher.py, efinance_fetcher.py), the Tushare  *)
(* minute counter (tushare_fetcher.py), the asynchronous task service      *)
(* (services/task_service.py), the notification service                    *)
(* (notification.py), the fetchers' retry wrappers and the Baostock        *)
(* session (baostock_fetcher.py and the other fetchers), and the command   *)
(* line programs (main.py, webui.py) with the Config they share            *)
(* (config.py).                                                            *)
(*                                                                         *)
(* Each part has its own specification over the shared variables:          *)
(*   SpecDaily   the manager's sequential failover operations              *)
(*   SpecQuote   concurrent Quote calls against cache and breaker          *)
(*   SpecBatch   one five-symbol batch with efinance as quote source       *)
(*   SpecRate    the Tushare per-minute call counter                       *)
(*   SpecRoute   one Quote request routed by the manager                   *)
(*   SpecSvc     threads submitting analyses to the TaskService            *)
(*   SpecSvcLive SpecSvc with worker threads that keep running             *)
(*   SpecNotify  one send of the notification service                      *)
(*   SpecChunk   one long message sent in chunks                           *)
(*   SpecFetch   one fetcher operation under its retry wrapper             *)
(*   SpecChips   Chips requests to the manager while time passes           *)
(*   SpecPrefetch one prefetch of the manager before a batch               *)
(*   SpecCli     one run of main.py or webui.py up to its exit code        *)
(*   SpecFetcherDaily one Daily of a fetcher: fetch, clean, return          *)
(*   SpecGate    threads passing a fetcher's rate limit gate               *)
(*   SpecSub     Quote requests to the Akshare sub-sources                 *)
(*   SpecFullRun one full analysis run, phase by phase                     *)
(*   SpecSplit   one Discord or Pushover report split into parts           *)
(*   SpecTelegram one Telegram message and its plain-text retry            *)
(*   SpecSched   schedule mode from startup over the following days        *)
(*   SpecChunkedSend the result a chunked send reports                     *)
(*   SpecBsq     threads running Baostock operations side by side          *)
(***************************************************************************)
EXTENDS Integers, Sequences, FiniteSets, TLC

VARIABLES
    fetchers,   \* DataFetcherManager._fetchers: sequence of fetcher names, sorted
    prio,       \* priority of each fetcher (class attribute / env / token)
    lastOp,     \* the last manager operation and what it did
    source,     \* the realtime source whose fetcher the run calls
    now,        \* time.time(), in seconds
    cache,      \* _realtime_cache of each module, by source key
    cb,         \* the realtime circuit breaker's state, by source key
    pc,         \* where each worker thread is
    loc,        \* each worker thread's local variables
    nCalls,     \* number of calls started so far (bounds the run)
    hist,       \* history: what happened to each source key
    batch,      \* the batch being analysed (SpecBatch)
    ts,         \* TushareFetcher._call_count / _minute_start
    apiLog,     \* history: times of the upstream Tushare calls
    quoteOp,     \* the last Quote request to the manager and what it did
    executor,    \* TaskService._executor: 0 for None, else the pool it holds
    pools,       \* the ThreadPoolExecutors created so far: each one's work queue
    runs,        \* the analyses submitted so far and how far each one got
    tasks,       \* TaskService._tasks: the ledger, by task id
    callers,     \* the threads that call submit_analysis
    clock,       \* datetime.now(), in the steps the task id can tell apart
    sendOp,      \* the last NotificationService.send and what it did
    chunkOp,     \* the last message sent in chunks: the size and the text of each chunk
    fetchOp,     \* one fetcher operation under its retry wrapper: where it is and what it called
    chipCb,      \* the chip circuit breaker's state, by chip source key
    chipLog,     \* history: the chip fetches made so far, with time and outcome
    prefetchOp,  \* the last prefetch_realtime_quotes of the manager and what it did
    cli,         \* the command line process: its flags, its Config, where it is and its exit code
    dailyOp,     \* the last Daily call of one fetcher: the raw frame and the series returned
    gate,        \* one fetcher's _last_request_time, its threads inside _enforce_rate_limit and the request times
    sub,         \* the breaker and the caches as the AkshareFetcher's Quote paths use them, and the calls made
    fullRun,     \* one run_full_analysis: its inputs, the step it is at and what each step did
    splitOp,     \* the last report sent to Discord or Pushover: its pieces and the length of each part sent
    tgOp,        \* the last message sent to Telegram: the posts made, their answers and the result
    sched,       \* schedule mode: the clock, the configured time and the times of the runs
    chunkSend,   \* the last chunked send: the channel's replies and the result reported
    bsq         \* the Baostock session of the process and the operations of the threads using it

vars      == <<fetchers, prio, lastOp, source, now, cache, cb, pc, loc, nCalls, hist,
               batch, ts, apiLog,
               quoteOp,
               executor,
               pools,
               runs,
               tasks,
               callers,
               clock,
               sendOp,
               chunkOp,
               fetchOp,
               chipCb,
               chipLog,
               prefetchOp,
               cli,
               dailyOp,
               gate,
               sub,
               fullRun,
               splitOp,
               tgOp,
               sched,
               chunkSend,
               bsq>>

----------------------------------------------------------------------------
(* Helpers *)

Range(s) == { s[i] : i \in 1..Len(s) }

Max(a, b) == IF a >= b THEN a ELSE b

----------------------------------------------------------------------------
(* DataFetcherManager: construction *)

\* The fetchers in the order _init_default_fetchers lists them.
DefaultFetchers ==
    << "EfinanceFetcher", "AkshareFetcher", "TushareFetcher",
       "PytdxFetcher", "BaostockFetcher", "YfinanceFetcher" >>

FetcherNames == Range(DefaultFetchers)

\* TushareFetcher._determine_priority: -1 with a token and a working API, else 2.
TushareDeterminePriority(hasToken) == IF hasToken THEN -1 ELSE 2

\* The priorities the fetchers can come up with: the class defaults, each of
\* EFINANCE_PRIORITY and AKSHARE_PRIORITY possibly overridden from the
\* environment, and Tushare's decided by the token.
Priorities(e, a, t) ==
    [ f \in FetcherNames |->
        CASE f = "EfinanceFetcher" -> e
          [] f = "AkshareFetcher"  -> a
          [] f = "TushareFetcher"  -> TushareDeterminePriority(t)
          [] f = "PytdxFetcher"    -> 2
          [] f = "BaostockFetcher" -> 3
          [] f = "YfinanceFetcher" -> 4 ]

PriorityChoices == { Priorities(e, a, t) : e \in {0, 3}, a \in {1, 0}, t \in BOOLEAN }

\* No environment override, no token.
DefaultPriorities == Priorities(0, 1, FALSE)

\* Insert x into the sorted sequence s after every element whose key is <= x's.
RECURSIVE InsertByPriority(_, _, _)
InsertByPriority(s, x, p) ==
    IF s = << >> THEN << x >>
    ELSE IF p[Head(s)] <= p[x] THEN << Head(s) >> \o InsertByPriority(Tail(s), x, p)
    ELSE << x >> \o s

\* list.sort(key=lambda f: f.priority): ascending and stable.
RECURSIVE SortByPriority(_, _)
SortByPriority(s, p) ==
    IF s = << >> THEN << >>
    ELSE InsertByPriority(SortByPriority(SubSeq(s, 1, Len(s) - 1), p), s[Len(s)], p)

\* DataFetcherManager._init_default_fetchers
InitDefaultFetchers(p) == SortByPriority(DefaultFetchers, p)

----------------------------------------------------------------------------
(* BaseFetcher.get_daily_data, as the manager sees one fetcher *)

\* What the upstream of one fetcher does on a Daily request:
\*   rows      a frame with usable rows
\*   nullrows  a non-empty frame all of whose rows lack close or volume
\*   empty     an empty frame (or None)
\*   error     the call raises
RawKinds == { "rows", "nullrows", "empty", "error" }

\* BaseFetcher.get_daily_data: an empty raw frame and any exception become a
\* DataFetchError; a frame that _clean_data empties is returned as it is.
BaseGetDailyData(raw) ==
    CASE raw = "rows"     -> "ok"
      [] raw = "nullrows" -> "emptyframe"
      [] raw = "empty"    -> "raise"
      [] raw = "error"    -> "raise"

----------------------------------------------------------------------------
(* DataFetcherManager.get_daily_data *)

\* The loop from fetcher i on: calls so far, errors so far.
RECURSIVE DailyLoop(_, _, _, _, _)
DailyLoop(fs, raw, i, called, errors) ==
    IF i > Len(fs)
    THEN [ kind |-> "raise", name |-> "none", called |-> called, errors |-> errors ]
    ELSE LET f == fs[i]
             r == BaseGetDailyData(raw[f])
         IN  CASE r = "ok" ->
                    [ kind |-> "return", name |-> f,
                      called |-> Append(called, f), errors |-> errors ]
               [] r = "emptyframe" ->
                    DailyLoop(fs, raw, i + 1, Append(called, f), errors)
               [] r = "raise" ->
                    DailyLoop(fs, raw, i + 1, Append(called, f), Append(errors, f))

\* The loop with the return on success left out: it goes on to the next fetcher.
RECURSIVE DailyLoopNoReturn(_, _, _, _, _)
DailyLoopNoReturn(fs, raw, i, called, errors) ==
    IF i > Len(fs)
    THEN LET ok == { j \in 1..Len(fs) : BaseGetDailyData(raw[fs[j]]) = "ok" }
         IN  IF ok = {}
             THEN [ kind |-> "raise", name |-> "none", called |-> called, errors |-> errors ]
             ELSE [ kind |-> "return", name |-> fs[CHOOSE j \in ok : \A k \in ok : j <= k],
                    called |-> called, errors |-> errors ]
    ELSE LET f == fs[i]
             r == BaseGetDailyData(raw[f])
         IN  DailyLoopNoReturn(fs, raw, i + 1, Append(called, f),
                               IF r = "raise" THEN Append(errors, f) ELSE errors)

\* get_daily_data without the return inside the loop.
ManagerGetDailyDataNoReturn(fs, raw) == DailyLoopNoReturn(fs, raw, 1, << >>, << >>)

\* get_daily_data ending like the market-wide operations: an empty value, no raise.
ManagerGetDailyDataNoRaise(fs, raw) ==
    LET r == DailyLoop(fs, raw, 1, << >>, << >>)
    IN  IF r.kind = "raise" THEN [ r EXCEPT !.kind = "return-empty", !.errors = << >> ] ELSE r

\* get_daily_data: errors = [], the loop over self._fetchers, the final raise.
ManagerGetDailyData(fs, raw) == DailyLoop(fs, raw, 1, << >>, << >>)

----------------------------------------------------------------------------
(* DataFetcherManager.get_main_indices / get_market_stats / get_sector_rankings *)

\* What one fetcher's market-wide operation gives: data, nothing (None), or raises.
AggKinds == { "data", "none", "error" }

\* for fetcher in self._fetchers: try ... if data: return data ... except: continue;
\* then the empty value.  No error is collected and nothing is raised.
RECURSIVE AggLoop(_, _, _, _)
AggLoop(fs, resp, i, called) ==
    IF i > Len(fs)
    THEN [ kind |-> "return-empty", name |-> "none", called |-> called, errors |-> << >> ]
    ELSE LET f == fs[i]
         IN  IF resp[f] = "data"
             THEN [ kind |-> "return", name |-> f,
                    called |-> Append(called, f), errors |-> << >> ]
             ELSE AggLoop(fs, resp, i + 1, Append(called, f))

ManagerGetMainIndices(fs, resp) == AggLoop(fs, resp, 1, << >>)

ManagerGetMarketStats(fs, resp) == AggLoop(fs, resp, 1, << >>)

ManagerGetSectorRankings(fs, resp) == AggLoop(fs, resp, 1, << >>)

----------------------------------------------------------------------------
(* The manager's actions.  The manager keeps nothing between two requests   *)
(* (its fetcher list is fixed after construction), so a run makes one.      *)

NoOp == [ op |-> "none", resp |-> [ f \in FetcherNames |-> "none" ],
          kind |-> "none", name |-> "none", called |-> << >>, errors |-> << >> ]

OpRecord(op, resp, r) ==
    [ op |-> op, resp |-> resp, kind |-> r.kind, name |-> r.name,
      called |-> r.called, errors |-> r.errors ]

GetDailyData ==
    /\ lastOp.op = "none"
    /\ \E raw \in [ FetcherNames -> RawKinds ] :
         lastOp' = OpRecord("daily", [ f \in FetcherNames |-> BaseGetDailyData(raw[f]) ],
                            ManagerGetDailyData(fetchers, raw))
    /\ UNCHANGED << source, fetchers, prio, now, cache, cb, pc, loc, nCalls, hist, batch, ts, apiLog, quoteOp, executor, pools, runs, tasks, callers, clock, sendOp, chunkOp, fetchOp, chipCb, chipLog, prefetchOp, cli, dailyOp, gate, sub, fullRun, splitOp, tgOp, sched, chunkSend, bsq >>

GetMainIndices ==
    /\ lastOp.op = "none"
    /\ \E resp \in [ FetcherNames -> AggKinds ] :
         lastOp' = OpRecord("indices", resp, ManagerGetMainIndices(fetchers, resp))
    /\ UNCHANGED << source, fetchers, prio, now, cache, cb, pc, loc, nCalls, hist, batch, ts, apiLog, quoteOp, executor, pools, runs, tasks, callers, clock, sendOp, chunkOp, fetchOp, chipCb, chipLog, prefetchOp, cli, dailyOp, gate, sub, fullRun, splitOp, tgOp, sched, chunkSend, bsq >>

GetMarketStats ==
    /\ lastOp.op = "none"
    /\ \E resp \in [ FetcherNames -> AggKinds ] :
         lastOp' = OpRecord("stats", resp, ManagerGetMarketStats(fetchers, resp))
    /\ UNCHANGED << source, fetchers, prio, now, cache, cb, pc, loc, nCalls, hist, batch, ts, apiLog, quoteOp, executor, pools, runs, tasks, callers, clock, sendOp, chunkOp, fetchOp, chipCb, chipLog, prefetchOp, cli, dailyOp, gate, sub, fullRun, splitOp, tgOp, sched, chunkSend, bsq >>

GetSectorRankings ==
    /\ lastOp.op = "none"
    /\ \E resp \in [ FetcherNames -> AggKinds ] :
         lastOp' = OpRecord("sectors", resp, ManagerGetSectorRankings(fetchers, resp))
    /\ UNCHANGED << source, fetchers, prio, now, cache, cb, pc, loc, nCalls, hist, batch, ts, apiLog, quoteOp, executor, pools, runs, tasks, callers, clock, sendOp, chunkOp, fetchOp, chipCb, chipLog, prefetchOp, cli, dailyOp, gate, sub, fullRun, splitOp, tgOp, sched, chunkSend, bsq >>

----------------------------------------------------------------------------
(* Bounds of the model *)

\* Threads of SpecQuote that make calls.
NumThreads == 2

\* Calls started in one run of SpecQuote.
MaxCalls == 4

\* Clock ticks in one run; the clock advances TickSeconds at a time.
MaxTicks == 2

----------------------------------------------------------------------------
(* Program constants *)

\* Config.max_workers
MaxWorkers == 3

\* akshare_fetcher._realtime_cache['ttl']
AkshareTtl == 1200

\* efinance_fetcher._realtime_cache['ttl']
EfinanceTtl == 600

\* Config.circuit_breaker_cooldown
Cooldown == 300

\* Granularity of the modelled clock, in seconds: the cooldown.
TickSeconds == Cooldown

\* Consecutive failures that open the breaker (N, default 3).
FailureThreshold == 3

Workers == 1..MaxWorkers

Keys == { "akshare_em", "efinance" }

Ttl(k) == IF k = "akshare_em" THEN AkshareTtl ELSE EfinanceTtl

----------------------------------------------------------------------------
(* The circuit breaker (realtime_types.py, not part of the sources read here) *)

CbInit == [ state |-> "closed", failures |-> 0, openedAt |-> 0 ]

\* Closed, Open until the cooldown has elapsed, then HalfOpen.
CbState(c, t) ==
    IF c.state = "open" /\ t - c.openedAt >= Cooldown THEN "half_open" ELSE c.state

\* is_available(key): true for Closed and HalfOpen.
IsAvailable(c, t) == CbState(c, t) # "open"

\* record_success(key): back to Closed with a zero failure count.
RecordSuccess(c) == [ state |-> "closed", failures |-> 0, openedAt |-> 0 ]

\* record_failure(key, reason): one more failure; Open from N consecutive on.
RecordFailure(c, t) ==
    LET n == c.failures + 1
    IN  IF n >= FailureThreshold
        THEN [ state |-> "open", failures |-> n, openedAt |-> t ]
        ELSE [ c EXCEPT !.failures = n ]

----------------------------------------------------------------------------
(* The module-level snapshot caches *)

\* What an upstream whole-market call gives:
\*   good       a frame with the expected code column
\*   empty      an empty frame
\*   malformed  a non-empty frame without the code column
\*   raise      the call raises
UpKinds == { "good", "empty", "malformed", "raise" }

\* _realtime_cache = {'data': None, 'timestamp': 0, 'ttl': ...}, with history:
\*   dataBy   the thread whose refresh wrote 'data' and has not yet written
\*            'timestamp' (0: none)
\*   tsStray  'timestamp' was written by a refresh whose 'data' had been
\*            overwritten by another refresh in between
CacheInit == [ data |-> "None", timestamp |-> 0, dataBy |-> 0, tsStray |-> FALSE ]

\* 'data' and 'timestamp' are not the two writes of one refresh.
Torn(c) == c.dataBy # 0 \/ c.tsStray

\* _realtime_cache['data'] is not None and
\* current_time - _realtime_cache['timestamp'] < _realtime_cache['ttl']
CacheFresh(c, t, ttl) == c.data # "None" /\ t - c.timestamp < ttl

----------------------------------------------------------------------------
(* Worker threads *)

\* op .. df are the locals of the call in progress.  The rest is history of
\* the call in progress: whether it was answered from the cache, whether the
\* cache was torn when read, whether the call began with the breaker Open and
\* the cooldown over, whether its upstream request returned a frame, and the
\* time between the last fill (the last failed refresh) of its key and its
\* upstream request (-1: none).
IdleLoc ==
    [ op |-> "none", key |-> "none", currentTime |-> 0, attempt |-> 0,
      df |-> "None", hit |-> FALSE, torn |-> FALSE, probe |-> FALSE,
      refreshed |-> FALSE, sinceFill |-> -1, sinceFail |-> -1 ]

\* History of one source key: when the cache was last filled with data by a
\* successful refresh, when a refresh last failed or came back empty
\* (-1: never), and which way the latest call went at its start: "refused" by
\* the breaker (it has returned None), answered from the "cache", or on to a
\* "refresh".
HistInit == [ fillAt |-> -1, failAt |-> -1, went |-> "none" ]

Since(t) == IF t = -1 THEN -1 ELSE now - t

\* "N consecutive failures recorded, the last one less than cooldown ago"
Blocked(k) ==
    /\ cb[k].failures >= FailureThreshold
    /\ now - cb[k].openedAt < Cooldown

----------------------------------------------------------------------------
(* Steps shared by the snapshot paths *)

\* No batch: single calls.  A batch has its number of symbols, the symbols not
\* yet taken by a worker, and history: the upstream snapshot requests made and
\* the quotes answered from the cache since it began.
BatchOff == [ phase |-> "off", codes |-> 0, queue |-> 0, fetches |-> 0, hits |-> 0 ]

\* One more in the batch's history.
Tally(field) ==
    IF batch.phase = "off" THEN batch ELSE [ batch EXCEPT ![field] = @ + 1 ]

\* The locals of a call that begins now.
StartLoc(op, k) ==
    [ IdleLoc EXCEPT !.op = op, !.key = k, !.currentTime = now,
                     !.probe = (CbState(cb[k], now) = "half_open") ]

\* "return None" at the availability test: nothing else is done.
Refuse(w, k) ==
    /\ pc' = pc
    /\ loc' = loc
    /\ hist' = [ hist EXCEPT ![k].went = "refused" ]

\* The cache test of a snapshot path, made at the start of the call:
\* a hit takes the cached frame, a miss goes on to refresh.
CacheCheck(w, base) ==
    LET k == base.key
    IN  IF CacheFresh(cache[k], now, Ttl(k))
        THEN /\ pc' = [ pc EXCEPT ![w] = "lookup" ]
             /\ loc' = [ loc EXCEPT ![w] =
                           [ base EXCEPT !.df = cache[k].data, !.hit = TRUE,
                                         !.torn = Torn(cache[k]) ] ]
             /\ hist' = [ hist EXCEPT ![k].went = "cache" ]
        ELSE /\ pc' = [ pc EXCEPT ![w] = "refresh" ]
             /\ loc' = [ loc EXCEPT ![w] = [ base EXCEPT !.attempt = 1 ] ]
             /\ hist' = [ hist EXCEPT ![k].went = "refresh" ]

\* The call returns res (None, a quote, the statistics): the thread is idle
\* again, its locals gone.
Finish(w, res) ==
    /\ res \in { "nil", "quote", "stats" }
    /\ pc' = [ pc EXCEPT ![w] = "idle" ]
    /\ loc' = [ loc EXCEPT ![w] = IdleLoc ]

\* After _enforce_rate_limit the upstream request goes out
\* (ak.stock_zh_a_spot_em() / ef.stock.get_realtime_quotes()).
IssueUpstream(w) ==
    /\ pc[w] = "refresh"
    /\ LET k == loc[w].key
       IN  /\ pc' = [ pc EXCEPT ![w] = "fetching" ]
           /\ loc' = [ loc EXCEPT ![w].sinceFill = Since(hist[k].fillAt),
                                   ![w].sinceFail = Since(hist[k].failAt) ]
    /\ batch' = Tally("fetches")
    /\ UNCHANGED << source, fetchers, prio, lastOp, now, cache, cb, nCalls, hist, ts, apiLog, quoteOp, executor, pools, runs, tasks, callers, clock, sendOp, chunkOp, fetchOp, chipCb, chipLog, prefetchOp, cli, dailyOp, gate, sub, fullRun, splitOp, tgOp, sched, chunkSend, bsq >>

\* _realtime_cache['data'] = df
StoreData(w) ==
    /\ pc[w] = "store"
    /\ LET k == loc[w].key
       IN  cache' = [ cache EXCEPT ![k].data = loc[w].df, ![k].dataBy = w ]
    /\ pc' = [ pc EXCEPT ![w] = "store_ts" ]
    /\ UNCHANGED << source, fetchers, prio, lastOp, now, cb, loc, nCalls, hist, batch, ts, apiLog, quoteOp, executor, pools, runs, tasks, callers, clock, sendOp, chunkOp, fetchOp, chipCb, chipLog, prefetchOp, cli, dailyOp, gate, sub, fullRun, splitOp, tgOp, sched, chunkSend, bsq >>

\* _realtime_cache['timestamp'] = current_time: the refresh has filled the cache.
StoreTimestamp(w) ==
    /\ pc[w] = "store_ts"
    /\ LET k == loc[w].key
       IN  /\ cache' = [ cache EXCEPT
                           ![k].timestamp = loc[w].currentTime,
                           ![k].tsStray = cache[k].dataBy # w,
                           ![k].dataBy = IF @ = w THEN 0 ELSE @ ]
           /\ hist' = [ hist EXCEPT ![k] =
                          [ @ EXCEPT
                              !.fillAt = IF loc[w].df = "good" THEN now ELSE @,
                              !.failAt = IF loc[w].df = "empty" THEN now ELSE @ ] ]
    /\ pc' = [ pc EXCEPT ![w] = "lookup" ]
    /\ UNCHANGED << source, fetchers, prio, lastOp, now, cb, loc, nCalls, batch, ts, apiLog, quoteOp, executor, pools, runs, tasks, callers, clock, sendOp, chunkOp, fetchOp, chipCb, chipLog, prefetchOp, cli, dailyOp, gate, sub, fullRun, splitOp, tgOp, sched, chunkSend, bsq >>

----------------------------------------------------------------------------
(* AkshareFetcher.get_realtime_quote(code, source="em") for an A-share code *)

\* circuit_breaker.is_available(f"akshare_{source}") with source = "em"
AkAvailableOtherKey(c, t) == IsAvailable(c["efinance"], t)

AkAvailable(c, t) == IsAvailable(c["akshare_em"], t)

\* get_realtime_quote up to the cache test of _get_stock_realtime_quote_em
AkQuoteStart(w) ==
    /\ pc[w] = "idle"
    /\ IF ~AkAvailable(cb, now)
       THEN Refuse(w, "akshare_em")
       ELSE CacheCheck(w, StartLoc("ak", "akshare_em"))
    /\ nCalls' = nCalls + 1
    /\ UNCHANGED << source, fetchers, prio, lastOp, now, cache, cb, ts, apiLog, quoteOp, executor, pools, runs, tasks, callers, clock, sendOp, chunkOp, fetchOp, chipCb, chipLog, prefetchOp, cli, dailyOp, gate, sub, fullRun, splitOp, tgOp, sched, chunkSend, bsq >>

\* for attempt in range(1, 3): the upstream call returns or raises.
AkUpstreamReturns(w) ==
    /\ pc[w] = "fetching" /\ loc[w].op = "ak"
    /\ \E out \in UpKinds :
         IF out # "raise"
         THEN \* df = ak.stock_zh_a_spot_em(); record_success; break
              /\ cb' = [ cb EXCEPT !["akshare_em"] = RecordSuccess(@) ]
              /\ loc' = [ loc EXCEPT ![w].df = out, ![w].refreshed = TRUE ]
              /\ pc' = [ pc EXCEPT ![w] = "store" ]
         ELSE IF loc[w].attempt < 2
         THEN \* except: sleep, next attempt
              /\ loc' = [ loc EXCEPT ![w].attempt = @ + 1 ]
              /\ pc' = [ pc EXCEPT ![w] = "refresh" ]
              /\ cb' = cb
         ELSE \* if df is None: record_failure; df = pd.DataFrame()
              /\ cb' = [ cb EXCEPT !["akshare_em"] = RecordFailure(@, now) ]
              /\ loc' = [ loc EXCEPT ![w].df = "empty" ]
              /\ pc' = [ pc EXCEPT ![w] = "store" ]
    /\ UNCHANGED << source, fetchers, prio, lastOp, now, cache, nCalls, hist, batch, ts, apiLog, quoteOp, executor, pools, runs, tasks, callers, clock, sendOp, chunkOp, fetchOp, chipCb, chipLog, prefetchOp, cli, dailyOp, gate, sub, fullRun, splitOp, tgOp, sched, chunkSend, bsq >>

\* From "if df is None or df.empty" to the return.
AkLookup(w) ==
    /\ pc[w] = "lookup" /\ loc[w].op = "ak"
    /\ CASE loc[w].df \in { "None", "empty" } ->
              /\ Finish(w, "nil")
              /\ cb' = cb
         [] loc[w].df = "malformed" ->
              \* df['代碼'] raises KeyError: except -> record_failure, None
              /\ Finish(w, "nil")
              /\ cb' = [ cb EXCEPT !["akshare_em"] = RecordFailure(@, now) ]
         [] loc[w].df = "good" ->
              /\ \E found \in BOOLEAN : Finish(w, IF found THEN "quote" ELSE "nil")
              /\ cb' = cb
    /\ UNCHANGED << source, fetchers, prio, lastOp, now, cache, nCalls, hist, batch, ts, apiLog, quoteOp, executor, pools, runs, tasks, callers, clock, sendOp, chunkOp, fetchOp, chipCb, chipLog, prefetchOp, cli, dailyOp, gate, sub, fullRun, splitOp, tgOp, sched, chunkSend, bsq >>

\* One Quote(code, "em") by a thread.
AkGetRealtimeQuote(w) ==
    /\ source = "akshare_em"
    /\ nCalls < MaxCalls
    /\ AkQuoteStart(w)
    /\ UNCHANGED batch

----------------------------------------------------------------------------
(* EfinanceFetcher.get_realtime_quote for an A-share code *)

\* circuit_breaker.is_available("efinance")
EfAvailable(c, t) == IsAvailable(c["efinance"], t)

\* get_realtime_quote up to the cache test
EfQuoteStart(w) ==
    /\ pc[w] = "idle"
    /\ IF ~EfAvailable(cb, now)
       THEN Refuse(w, "efinance")
       ELSE CacheCheck(w, StartLoc("ef", "efinance"))
    /\ nCalls' = nCalls + 1
    /\ UNCHANGED << source, fetchers, prio, lastOp, now, cache, cb, ts, apiLog, quoteOp, executor, pools, runs, tasks, callers, clock, sendOp, chunkOp, fetchOp, chipCb, chipLog, prefetchOp, cli, dailyOp, gate, sub, fullRun, splitOp, tgOp, sched, chunkSend, bsq >>

\* Nothing recorded when the upstream call has returned.
EfOnSuccessForgotten(c) == c

\* What the breaker is told when the upstream call has returned a frame.
EfOnSuccess(c) == RecordSuccess(c)

\* df = ef.stock.get_realtime_quotes() returns, or raises into the outer except.
EfUpstreamReturns(w) ==
    /\ pc[w] = "fetching" /\ loc[w].op = "ef"
    /\ \E out \in UpKinds :
         IF out # "raise"
         THEN \* record_success; the cache update follows
              /\ cb' = [ cb EXCEPT !["efinance"] = EfOnSuccess(@) ]
              /\ loc' = [ loc EXCEPT ![w].df = out, ![w].refreshed = TRUE ]
              /\ pc' = [ pc EXCEPT ![w] = "store" ]
              /\ hist' = hist
         ELSE \* except: record_failure; return None.  The cache is left as it was.
              /\ cb' = [ cb EXCEPT !["efinance"] = RecordFailure(@, now) ]
              /\ Finish(w, "nil")
              /\ hist' = [ hist EXCEPT !["efinance"].failAt = now ]
    /\ UNCHANGED << source, fetchers, prio, lastOp, now, cache, nCalls, batch, ts, apiLog, quoteOp, executor, pools, runs, tasks, callers, clock, sendOp, chunkOp, fetchOp, chipCb, chipLog, prefetchOp, cli, dailyOp, gate, sub, fullRun, splitOp, tgOp, sched, chunkSend, bsq >>

\* From "code_col = ..." to the return.
EfLookup(w) ==
    /\ pc[w] = "lookup" /\ loc[w].op = "ef"
    /\ CASE loc[w].df = "malformed" ->
              \* df['code'] raises KeyError: except -> record_failure, None
              /\ Finish(w, "nil")
              /\ cb' = [ cb EXCEPT !["efinance"] = RecordFailure(@, now) ]
         [] loc[w].df = "empty" ->
              \* an empty frame with the code column finds no row; one without
              \* it raises KeyError
              \E hasColumn \in BOOLEAN :
                /\ Finish(w, "nil")
                /\ cb' = IF hasColumn THEN cb
                         ELSE [ cb EXCEPT !["efinance"] = RecordFailure(@, now) ]
         [] loc[w].df = "good" ->
              /\ \E found \in BOOLEAN : Finish(w, IF found THEN "quote" ELSE "nil")
              /\ cb' = cb
    /\ batch' = IF loc[w].hit THEN Tally("hits") ELSE batch
    /\ UNCHANGED << source, fetchers, prio, lastOp, now, cache, nCalls, hist, ts, apiLog, quoteOp, executor, pools, runs, tasks, callers, clock, sendOp, chunkOp, fetchOp, chipCb, chipLog, prefetchOp, cli, dailyOp, gate, sub, fullRun, splitOp, tgOp, sched, chunkSend, bsq >>

\* One Quote(code) by a thread.
EfGetRealtimeQuote(w) ==
    /\ source = "efinance"
    /\ batch.phase = "off"
    /\ nCalls < MaxCalls
    /\ EfQuoteStart(w)
    /\ UNCHANGED batch

----------------------------------------------------------------------------
(* EfinanceFetcher.get_market_stats: the same cache, no circuit breaker *)

EfGetMarketStats(w) ==
    /\ source = "efinance"
    /\ nCalls < MaxCalls
    /\ pc[w] = "idle"
    /\ CacheCheck(w, StartLoc("stats", "efinance"))
    /\ nCalls' = nCalls + 1
    /\ UNCHANGED << source, fetchers, prio, lastOp, now, cache, cb, batch, ts, apiLog, quoteOp, executor, pools, runs, tasks, callers, clock, sendOp, chunkOp, fetchOp, chipCb, chipLog, prefetchOp, cli, dailyOp, gate, sub, fullRun, splitOp, tgOp, sched, chunkSend, bsq >>

\* df = ef.stock.get_realtime_quotes() returns, or raises into "return None".
StatsUpstreamReturns(w) ==
    /\ pc[w] = "fetching" /\ loc[w].op = "stats"
    /\ \E out \in UpKinds :
         IF out # "raise"
         THEN /\ loc' = [ loc EXCEPT ![w].df = out, ![w].refreshed = TRUE ]
              /\ pc' = [ pc EXCEPT ![w] = "store" ]
         ELSE Finish(w, "nil")
    /\ UNCHANGED << source, fetchers, prio, lastOp, now, cache, cb, nCalls, hist, batch, ts, apiLog, quoteOp, executor, pools, runs, tasks, callers, clock, sendOp, chunkOp, fetchOp, chipCb, chipLog, prefetchOp, cli, dailyOp, gate, sub, fullRun, splitOp, tgOp, sched, chunkSend, bsq >>

\* From "if df is None or df.empty" to the return.
StatsFinish(w) ==
    /\ pc[w] = "lookup" /\ loc[w].op = "stats"
    /\ Finish(w, IF loc[w].df = "good" THEN "stats" ELSE "nil")
    /\ UNCHANGED << source, fetchers, prio, lastOp, now, cache, cb, nCalls, hist, batch, ts, apiLog, quoteOp, executor, pools, runs, tasks, callers, clock, sendOp, chunkOp, fetchOp, chipCb, chipLog, prefetchOp, cli, dailyOp, gate, sub, fullRun, splitOp, tgOp, sched, chunkSend, bsq >>

----------------------------------------------------------------------------
(* A batch: prefetch_realtime_quotes, then one Quote per symbol by the pool *)

\* if len(stock_codes) < 5: skip the prefetch
PrefetchMinCodes == 5

\* DataFetcherManager.prefetch_realtime_quotes with efinance first in
\* realtime_source_priority: nothing for fewer than five symbols, else one
\* Quote for the first symbol, made by the thread that runs the batch.
PrefetchRealtimeQuotes ==
    /\ batch.phase = "prefetch"
    /\ IF batch.codes < PrefetchMinCodes
       THEN /\ batch' = [ batch EXCEPT !.phase = "run" ]
            /\ UNCHANGED << pc, loc, hist, nCalls >>
            /\ UNCHANGED << source, fetchers, prio, lastOp, now, cache, cb, ts, apiLog, quoteOp, executor, pools, runs, tasks, callers, clock, sendOp, chunkOp, fetchOp, chipCb, chipLog, prefetchOp, cli, dailyOp, gate, sub, fullRun, splitOp, tgOp, sched, chunkSend, bsq >>
       ELSE /\ batch' = [ batch EXCEPT !.phase = "prefetching" ]
            /\ EfQuoteStart(1)

\* The prefetch has returned (with a quote or without): the pool starts.
PrefetchReturns ==
    /\ batch.phase = "prefetching"
    /\ pc[1] = "idle"
    /\ batch' = [ batch EXCEPT !.phase = "run" ]
    /\ UNCHANGED << source, fetchers, prio, lastOp, now, cache, cb, pc, loc, nCalls, hist, ts, apiLog, quoteOp, executor, pools, runs, tasks, callers, clock, sendOp, chunkOp, fetchOp, chipCb, chipLog, prefetchOp, cli, dailyOp, gate, sub, fullRun, splitOp, tgOp, sched, chunkSend, bsq >>

\* A free worker of the pool takes the next symbol and asks for its quote.
BatchTake(w) ==
    /\ batch.phase = "run"
    /\ batch.queue > 0
    /\ batch' = [ batch EXCEPT !.queue = @ - 1 ]
    /\ EfQuoteStart(w)

\* Every symbol has been taken and every worker is back.
BatchDone ==
    /\ batch.phase = "run"
    /\ batch.queue = 0
    /\ \A w \in Workers : pc[w] = "idle"
    /\ batch' = [ batch EXCEPT !.phase = "done" ]
    /\ UNCHANGED << source, fetchers, prio, lastOp, now, cache, cb, pc, loc, nCalls, hist, ts, apiLog, quoteOp, executor, pools, runs, tasks, callers, clock, sendOp, chunkOp, fetchOp, chipCb, chipLog, prefetchOp, cli, dailyOp, gate, sub, fullRun, splitOp, tgOp, sched, chunkSend, bsq >>

----------------------------------------------------------------------------
(* Time *)

\* The epoch clock is far beyond any ttl when the process starts.
StartTime == 2 * AkshareTtl

Tick ==
    /\ now < StartTime + MaxTicks * TickSeconds
    /\ now' = now + TickSeconds
    /\ UNCHANGED << source, fetchers, prio, lastOp, cache, cb, pc, loc, nCalls, hist, batch, ts, apiLog, quoteOp, executor, pools, runs, tasks, callers, clock, sendOp, chunkOp, fetchOp, chipCb, chipLog, prefetchOp, cli, dailyOp, gate, sub, fullRun, splitOp, tgOp, sched, chunkSend, bsq >>

----------------------------------------------------------------------------
(* TushareFetcher: _check_rate_limit and the calls it guards *)

\* The limits a run is constructed with go up to this one.
MaxRateLimit == 3

\* Upstream calls recorded in one run of SpecRate.
MaxApiCalls == 8

\* Clock ticks in one run of SpecRate.
MaxRateTicks == 6

\* def __init__(self, rate_limit_per_minute: int = 80)
DefaultRateLimit == 80

\* current_time - self._minute_start >= 60
WindowSeconds == 60

\* sleep_time = max(0, 60 - elapsed) + 1
SleepBuffer == 1

\* Granularity of the clock of SpecRate, in seconds.
RateTickSeconds == WindowSeconds \div 3

\* rate_limit_per_minute, _call_count = 0, _minute_start = None (-1)
TsInit(limit) == [ rateLimit |-> limit, callCount |-> 0, minuteStart |-> -1 ]

\* _check_rate_limit called at time t on the fetcher's state s: the state it
\* leaves and the time at which it returns (later than t when it has slept).
CheckRateLimit(s, t) ==
    LET s1 == IF s.minuteStart = -1 \/ t - s.minuteStart >= WindowSeconds
              THEN [ s EXCEPT !.minuteStart = t, !.callCount = 0 ]
              ELSE s
    IN  IF s1.callCount >= s1.rateLimit
        THEN LET elapsed == t - s1.minuteStart
                 sleepTime == Max(0, WindowSeconds - elapsed) + SleepBuffer
             IN  [ ts |-> [ s1 EXCEPT !.minuteStart = t + sleepTime, !.callCount = 1 ],
                   now |-> t + sleepTime ]
        ELSE [ ts |-> [ s1 EXCEPT !.callCount = @ + 1 ], now |-> t ]

\* n copies of t
RECURSIVE Times(_, _)
Times(n, t) == IF n = 0 THEN << >> ELSE << t >> \o Times(n - 1, t)

\* The run still has room for n upstream calls.
CanCall(n) == Len(apiLog) + n <= MaxApiCalls

\* One method of the fetcher: one _check_rate_limit, then n upstream calls.
TushareCalls(n) ==
    /\ LET r == CheckRateLimit(ts, now)
       IN  /\ ts' = r.ts
           /\ now' = r.now
           /\ apiLog' = apiLog \o Times(n, r.now)
    /\ UNCHANGED << source, fetchers, prio, lastOp, cache, cb, pc, loc, nCalls, hist, batch, quoteOp, executor, pools, runs, tasks, callers, clock, sendOp, chunkOp, fetchOp, chipCb, chipLog, prefetchOp, cli, dailyOp, gate, sub, fullRun, splitOp, tgOp, sched, chunkSend, bsq >>

\* _fetch_raw_data: self._api.daily(ts_code, start_date, end_date)
TsFetchRawData ==
    /\ CanCall(1)
    /\ TushareCalls(1)

\* get_realtime_quote: self._api.quotation(ts_code)
TsGetRealtimeQuote ==
    /\ CanCall(1)
    /\ TushareCalls(1)

\* get_main_indices: self._api.index_daily for each of the six indices
TsGetMainIndices ==
    /\ CanCall(6)
    /\ TushareCalls(6)

\* get_market_stats: trade_cal, daily, and daily again for the previous day
\* when the first day's data is incomplete
TsGetMarketStats ==
    \E n \in { 2, 3 } :
      /\ CanCall(n)
      /\ TushareCalls(n)

RateTick ==
    /\ now < StartTime + MaxRateTicks * RateTickSeconds
    /\ now' = now + RateTickSeconds
    /\ UNCHANGED << source, fetchers, prio, lastOp, cache, cb, pc, loc, nCalls, hist, batch, ts, apiLog, quoteOp, executor, pools, runs, tasks, callers, clock, sendOp, chunkOp, fetchOp, chipCb, chipLog, prefetchOp, cli, dailyOp, gate, sub, fullRun, splitOp, tgOp, sched, chunkSend, bsq >>

----------------------------------------------------------------------------
(* Ticker shape: _is_us_code and the bot's check of a US symbol *)

\* Longest ticker of the model, in characters.
MaxCodeLen == 4

\* The characters of the model's tickers: an upper-case letter, a lower-case
\* letter, a digit and the dot.
Chars == { "A", "a", "6", "." }

Codes == UNION { [ 1..n -> Chars ] : n \in 1..MaxCodeLen }

\* str.upper(), one character.
UpperChar(c) == IF c = "a" THEN "A" ELSE c

\* str.upper()
Upper(s) == [ i \in 1..Len(s) |-> UpperChar(s[i]) ]

\* str.strip(): leading and trailing blanks go.
RECURSIVE Strip(_)
Strip(s) ==
    IF s = << >> THEN s
    ELSE IF Head(s) = " " THEN Strip(Tail(s))
    ELSE IF s[Len(s)] = " " THEN Strip(SubSeq(s, 1, Len(s) - 1))
    ELSE s

\* [A-Z]
IsUpperLetter(c) == c = "A"

AllUpperLetters(s) == \A i \in 1..Len(s) : IsUpperLetter(s[i])

\* re.match(r'^[A-Z]{1,5}(\.[A-Z]{1,n})?$', s): one to five letters, then
\* possibly a dot and one to n letters.
MatchUs(s, n) ==
    \/ Len(s) \in 1..5 /\ AllUpperLetters(s)
    \/ \E d \in 2..Len(s) :
         /\ s[d] = "."
         /\ d - 1 \in 1..5 /\ AllUpperLetters(SubSeq(s, 1, d - 1))
         /\ Len(s) - d \in 1..n /\ AllUpperLetters(SubSeq(s, d + 1, Len(s)))

\* The suffix lengths the two expressions allow.
UsSuffixFetchers == 1
UsSuffixBot == 2

\* akshare_fetcher._is_us_code
IsUsCode(code) == MatchUs(Upper(Strip(code)), UsSuffixFetchers)

\* AnalyzeCommand.validate_args: is_us_stock, on args[0].upper()
IsUsStock(code) == MatchUs(Upper(code), UsSuffixBot)

----------------------------------------------------------------------------
(* DataFetcherManager.get_realtime_quote *)

\* An entry of realtime_source_priority, as split(',') leaves it:
\* source.strip().lower()
StripLower(raw) == IF raw = " Akshare_QQ" THEN "akshare_qq" ELSE raw

\* The fetcher and the source argument each branch of the loop calls; an entry
\* no branch names calls nothing.
Branch(src) ==
    CASE src = "efinance"     -> [ fetcher |-> "EfinanceFetcher", source |-> "efinance" ]
      [] src = "akshare_em"   -> [ fetcher |-> "AkshareFetcher",  source |-> "em" ]
      [] src = "akshare_sina" -> [ fetcher |-> "AkshareFetcher",  source |-> "sina" ]
      [] src \in { "tencent", "akshare_qq" }
                              -> [ fetcher |-> "AkshareFetcher",  source |-> "tencent" ]
      [] src = "tushare"      -> [ fetcher |-> "TushareFetcher",  source |-> "tushare" ]
      [] OTHER                -> [ fetcher |-> "none",            source |-> "none" ]

YfinanceCall == [ fetcher |-> "YfinanceFetcher", source |-> "yfinance" ]

\* for fetcher in self._fetchers: if fetcher.name == name
HasFetcher(fs, name) == \E i \in 1..Len(fs) : fs[i] = name

\* What a fetcher's get_realtime_quote gives: a quote with a price, a quote
\* without one, None, or an exception.
QuoteKinds == { "quote", "noprice", "none", "raise" }

\* UnifiedRealtimeQuote.has_basic_data: the price is present.
HasBasicData(q) == q = "quote"

\* The loop without the return of a valid quote: the later sources are still
\* called.
RECURSIVE QuoteLoopNoReturn(_, _, _, _, _, _)
QuoteLoopNoReturn(fs, pref, resp, i, called, errors) ==
    IF i > Len(pref)
    THEN [ result |-> "nil", called |-> called, errors |-> errors ]
    ELSE LET src  == StripLower(pref[i])
             b    == Branch(src)
         IN  IF b.fetcher = "none" \/ ~HasFetcher(fs, b.fetcher)
             THEN QuoteLoopNoReturn(fs, pref, resp, i + 1, called, errors)
             ELSE LET q    == resp[Len(called) + 1]
                      rest == QuoteLoopNoReturn(fs, pref, resp, i + 1, Append(called, b),
                                                IF q = "raise" THEN Append(errors, src)
                                                ELSE errors)
                  IN  IF q = "quote" /\ rest.result = "nil"
                      THEN [ rest EXCEPT !.result = src ]
                      ELSE rest

\* The loop over source_priority from entry i on.  resp[k] is what the k-th
\* call of this operation gives.
RECURSIVE QuoteLoop(_, _, _, _, _, _)
QuoteLoop(fs, pref, resp, i, called, errors) ==
    IF i > Len(pref)
    THEN [ result |-> "nil", called |-> called, errors |-> errors ]
    ELSE LET src == StripLower(pref[i])
             b   == Branch(src)
         IN  IF b.fetcher = "none" \/ ~HasFetcher(fs, b.fetcher)
             THEN QuoteLoop(fs, pref, resp, i + 1, called, errors)
             ELSE LET q == resp[Len(called) + 1]
                  IN  CASE q = "raise" ->
                             QuoteLoop(fs, pref, resp, i + 1, Append(called, b),
                                       Append(errors, src))
                        [] q # "none" /\ HasBasicData(q) ->
                             [ result |-> src, called |-> Append(called, b),
                               errors |-> errors ]
                        [] OTHER ->
                             QuoteLoop(fs, pref, resp, i + 1, Append(called, b), errors)

\* The US branch: the Yfinance fetcher alone; whatever it returns that is not
\* None is returned, an exception is logged.
UsQuote(fs, resp) ==
    IF HasFetcher(fs, "YfinanceFetcher")
    THEN [ result |-> IF resp[1] \in { "quote", "noprice" } THEN "yfinance" ELSE "nil",
           called |-> << YfinanceCall >>, errors |-> << >> ]
    ELSE [ result |-> "nil", called |-> << >>, errors |-> << >> ]

\* get_realtime_quote of the manager.
ManagerGetRealtimeQuote(fs, enabled, code, pref, resp) ==
    IF ~enabled THEN [ result |-> "nil", called |-> << >>, errors |-> << >> ]
    ELSE IF IsUsCode(code) THEN UsQuote(fs, resp)
    ELSE QuoteLoop(fs, pref, resp, 1, << >>, << >>)

\* The preference lists of the model: the head of the default list, and lists
\* that reach the other branches.
PrefChoices ==
    { << "tencent", "akshare_sina" >>, << "efinance", "akshare_em" >>,
      << " Akshare_QQ", "tushare" >>, << "sohu", "efinance" >> }

NoQuoteOp ==
    [ op |-> "none", code |-> << >>, enabled |-> TRUE, pref |-> << >>,
      resp |-> << >>, result |-> "nil", called |-> << >>, errors |-> << >> ]

\* One Quote request to the manager.
GetRealtimeQuote ==
    /\ quoteOp.op = "none"
    /\ \E code \in Codes, enabled \in BOOLEAN, pref \in PrefChoices :
       \E resp \in [ 1..Len(pref) -> QuoteKinds ] :
         LET r == ManagerGetRealtimeQuote(fetchers, enabled, code, pref, resp)
         IN  quoteOp' = [ op |-> "quote", code |-> code, enabled |-> enabled,
                          pref |-> pref, resp |-> resp, result |-> r.result,
                          called |-> r.called, errors |-> r.errors ]
    /\ UNCHANGED << source, fetchers, prio, lastOp, now, cache, cb, pc, loc, nCalls, hist, batch, ts, apiLog, executor, pools, runs, tasks, callers, clock, sendOp, chunkOp, fetchOp, chipCb, chipLog, prefetchOp, cli, dailyOp, gate, sub, fullRun, splitOp, tgOp, sched, chunkSend, bsq >>

----------------------------------------------------------------------------
(* TaskService: submit_analysis, the executor property, _run_analysis *)

\* Threads that call submit_analysis (bot and API request handlers).
NumCallers == 2

\* Analyses submitted in one run.
MaxSubmits == 4

\* The last value of the clock.
MaxStamp == 1

\* TaskService.__init__: max_workers, as get_instance passes none.
TaskMaxWorkers == 3

Callers == 1..NumCallers

TaskCodes == { "600519" }

Stamps == 0..MaxStamp

\* f"{code}_{datetime.now().strftime('%Y%m%d_%H%M%S_%f')}"
TaskId(code, stamp) == << code, stamp >>

TaskIds == { TaskId(code, stamp) : code \in TaskCodes, stamp \in Stamps }

IdleCaller == [ pc |-> "idle", run |-> 0, pool |-> 0 ]

\* The work items of pool p that a worker thread is running.
Executing(p) ==
    { r \in 1..Len(runs) : runs[r].pool = p /\ runs[r].stage \in { "init", "pipeline" } }

\* self._tasks.get(task_id)
GetTaskStatus(id) == tasks[id]

\* submit_analysis, up to the task id.  datetime.now() gives the value it gave
\* to the last caller, or a later one.
SubmitAnalysis(c) ==
    /\ callers[c].pc = "idle"
    /\ Len(runs) < MaxSubmits
    /\ \E code \in TaskCodes, stamp \in { clock, clock + 1 } \cap Stamps :
         /\ clock' = stamp
         /\ runs' = Append(runs, [ id |-> TaskId(code, stamp), pool |-> 0,
                                   stage |-> "new", returned |-> FALSE ])
    /\ callers' = [ callers EXCEPT ![c] = [ pc |-> "executor", run |-> Len(runs) + 1,
                                            pool |-> 0 ] ]
    /\ UNCHANGED << executor, pools, tasks >>
    /\ UNCHANGED << source, fetchers, prio, lastOp, now, cache, cb, pc, loc, nCalls, hist, batch, ts, apiLog, quoteOp, sendOp, chunkOp, fetchOp, chipCb, chipLog, prefetchOp, cli, dailyOp, gate, sub, fullRun, splitOp, tgOp, sched, chunkSend, bsq >>

\* The executor property: if self._executor is None
ExecutorGet(c) ==
    /\ callers[c].pc = "executor"
    /\ callers' = [ callers EXCEPT ![c].pc =
                      IF executor = 0 THEN "create" ELSE "return_executor" ]
    /\ UNCHANGED << executor, pools, runs, tasks, clock >>
    /\ UNCHANGED << source, fetchers, prio, lastOp, now, cache, cb, pc, loc, nCalls, hist, batch, ts, apiLog, quoteOp, sendOp, chunkOp, fetchOp, chipCb, chipLog, prefetchOp, cli, dailyOp, gate, sub, fullRun, splitOp, tgOp, sched, chunkSend, bsq >>

\* self._executor = ThreadPoolExecutor(max_workers=self._max_workers, ...)
ExecutorCreate(c) ==
    /\ callers[c].pc = "create"
    /\ pools' = Append(pools, << >>)
    /\ executor' = Len(pools) + 1
    /\ callers' = [ callers EXCEPT ![c].pc = "return_executor" ]
    /\ UNCHANGED << runs, tasks, clock >>
    /\ UNCHANGED << source, fetchers, prio, lastOp, now, cache, cb, pc, loc, nCalls, hist, batch, ts, apiLog, quoteOp, sendOp, chunkOp, fetchOp, chipCb, chipLog, prefetchOp, cli, dailyOp, gate, sub, fullRun, splitOp, tgOp, sched, chunkSend, bsq >>

\* return self._executor
ExecutorReturn(c) ==
    /\ callers[c].pc = "return_executor"
    /\ callers' = [ callers EXCEPT ![c].pc = "submit", ![c].pool = executor ]
    /\ UNCHANGED << executor, pools, runs, tasks, clock >>
    /\ UNCHANGED << source, fetchers, prio, lastOp, now, cache, cb, pc, loc, nCalls, hist, batch, ts, apiLog, quoteOp, sendOp, chunkOp, fetchOp, chipCb, chipLog, prefetchOp, cli, dailyOp, gate, sub, fullRun, splitOp, tgOp, sched, chunkSend, bsq >>

\* self.executor.submit(self._run_analysis, code, task_id, ...): the work item
\* joins the queue of the pool.
PoolSubmit(c) ==
    /\ callers[c].pc = "submit"
    /\ LET p == callers[c].pool
           r == callers[c].run
       IN  /\ pools' = [ pools EXCEPT ![p] = Append(@, r) ]
           /\ runs' = [ runs EXCEPT ![r].pool = p, ![r].stage = "queued" ]
    /\ callers' = [ callers EXCEPT ![c].pc = "return" ]
    /\ UNCHANGED << executor, tasks, clock >>
    /\ UNCHANGED << source, fetchers, prio, lastOp, now, cache, cb, pc, loc, nCalls, hist, batch, ts, apiLog, quoteOp, sendOp, chunkOp, fetchOp, chipCb, chipLog, prefetchOp, cli, dailyOp, gate, sub, fullRun, splitOp, tgOp, sched, chunkSend, bsq >>

\* return {"success": True, ..., "task_id": task_id, ...}
SubmitReturn(c) ==
    /\ callers[c].pc = "return"
    /\ runs' = [ runs EXCEPT ![callers[c].run].returned = TRUE ]
    /\ callers' = [ callers EXCEPT ![c] = IdleCaller ]
    /\ UNCHANGED << executor, pools, tasks, clock >>
    /\ UNCHANGED << source, fetchers, prio, lastOp, now, cache, cb, pc, loc, nCalls, hist, batch, ts, apiLog, quoteOp, sendOp, chunkOp, fetchOp, chipCb, chipLog, prefetchOp, cli, dailyOp, gate, sub, fullRun, splitOp, tgOp, sched, chunkSend, bsq >>

\* ThreadPoolExecutor: a pool runs at most max_workers work items at a time and
\* takes them from its queue in the order they came.
RunStart(r) ==
    /\ r \in 1..Len(runs)
    /\ runs[r].stage = "queued"
    /\ LET p == runs[r].pool
       IN  /\ pools[p] # << >> /\ Head(pools[p]) = r
           /\ Cardinality(Executing(p)) < TaskMaxWorkers
           /\ pools' = [ pools EXCEPT ![p] = Tail(@) ]
    /\ runs' = [ runs EXCEPT ![r].stage = "init" ]
    /\ UNCHANGED << executor, tasks, callers, clock >>
    /\ UNCHANGED << source, fetchers, prio, lastOp, now, cache, cb, pc, loc, nCalls, hist, batch, ts, apiLog, quoteOp, sendOp, chunkOp, fetchOp, chipCb, chipLog, prefetchOp, cli, dailyOp, gate, sub, fullRun, splitOp, tgOp, sched, chunkSend, bsq >>

\* _run_analysis: self._tasks[task_id] = {..., "status": "running", ...}
LedgerRunning(r) ==
    /\ r \in 1..Len(runs)
    /\ runs[r].stage = "init"
    /\ tasks' = [ tasks EXCEPT ![runs[r].id] = "running" ]
    /\ runs' = [ runs EXCEPT ![r].stage = "pipeline" ]
    /\ UNCHANGED << executor, pools, callers, clock >>
    /\ UNCHANGED << source, fetchers, prio, lastOp, now, cache, cb, pc, loc, nCalls, hist, batch, ts, apiLog, quoteOp, sendOp, chunkOp, fetchOp, chipCb, chipLog, prefetchOp, cli, dailyOp, gate, sub, fullRun, splitOp, tgOp, sched, chunkSend, bsq >>

\* What pipeline.process_single_stock does: returns a result, returns nothing,
\* or raises.
PipelineOutcomes == { "result", "nothing", "raise" }

\* The update of the failure branches left out: only a result ends the entry.
FinalStatusOnlyResult(out) == IF out = "result" THEN "completed" ELSE "running"

\* The status _run_analysis writes for each outcome.
FinalStatus(out) == IF out = "result" THEN "completed" ELSE "failed"

\* _run_analysis: the pipeline call ends and the ledger entry is updated.
PipelineReturns(r) ==
    /\ r \in 1..Len(runs)
    /\ runs[r].stage = "pipeline"
    /\ \E out \in PipelineOutcomes :
         tasks' = [ tasks EXCEPT ![runs[r].id] = FinalStatus(out) ]
    /\ runs' = [ runs EXCEPT ![r].stage = "done" ]
    /\ UNCHANGED << executor, pools, callers, clock >>
    /\ UNCHANGED << source, fetchers, prio, lastOp, now, cache, cb, pc, loc, nCalls, hist, batch, ts, apiLog, quoteOp, sendOp, chunkOp, fetchOp, chipCb, chipLog, prefetchOp, cli, dailyOp, gate, sub, fullRun, splitOp, tgOp, sched, chunkSend, bsq >>

\* TaskService.__init__
InitService ==
    /\ executor = 0
    /\ pools = << >>
    /\ runs = << >>
    /\ tasks = [ id \in TaskIds |-> "unknown" ]
    /\ callers = [ c \in Callers |-> IdleCaller ]
    /\ clock = 0

----------------------------------------------------------------------------
(* NotificationService.send and the channels it goes through *)

\* Most chunks of one message in the model.
MaxChunks == 2

\* What happens to one HTTP post: the service acknowledges it, answers with an
\* error, or the request raises (timeout, connection error).
Fates == { "ok", "fail", "raise" }

\* _detect_all_channels appends the configured channels in this order (the
\* model has three of them).
ChannelOrder == << "wechat", "feishu", "pushplus" >>

\* The channels that answer through the source message of a bot request.
ContextChannels == { "dingtalk_session", "feishu_session" }

Post(ch, form, chunk, fate) ==
    [ channel |-> ch, form |-> form, chunk |-> chunk, fate |-> fate ]

\* The posts of a message sent in chunks: every chunk is posted once, whatever
\* happened to the chunks before it.
ChunkPosts(ch, fates) ==
    [ i \in 1..Len(fates) |-> Post(ch, "markdown", i, fates[i]) ]

\* success_count == total_chunks
AllChunksOk(fates) == \A i \in 1..Len(fates) : fates[i] = "ok"

\* send_to_wechat: one message, or _send_wechat_chunked; exceptions are caught.
SendToWechat(fates) ==
    [ ret |-> AllChunksOk(fates), raised |-> FALSE, posts |-> ChunkPosts("wechat", fates) ]

\* _send_feishu_message: the interactive card first; when that post is not
\* acknowledged, the same content again as a text message.
SendFeishuMessage(card, text) ==
    IF card \in { "ok", "raise" }
    THEN [ ret |-> card = "ok", raised |-> card = "raise",
           posts |-> << Post("feishu", "card", 1, card) >> ]
    ELSE [ ret |-> text = "ok", raised |-> text = "raise",
           posts |-> << Post("feishu", "card", 1, card), Post("feishu", "text", 1, text) >> ]

\* send_to_feishu: format_feishu_markdown runs outside the try block, the post
\* inside it.
SendToFeishu(f) ==
    IF f.format = "raise"
    THEN [ ret |-> FALSE, raised |-> TRUE, posts |-> << >> ]
    ELSE LET m == SendFeishuMessage(f.card, f.text)
         IN  [ ret |-> m.ret /\ ~m.raised, raised |-> FALSE, posts |-> m.posts ]

\* send_to_pushplus: one post inside a try block.
SendToPushplus(fate) ==
    [ ret |-> fate = "ok", raised |-> FALSE,
      posts |-> << Post("pushplus", "markdown", 1, fate) >> ]

\* The branch of send's loop for one channel.
SendToChannel(ch, env) ==
    CASE ch = "wechat"   -> SendToWechat(env.wechat)
      [] ch = "feishu"   -> SendToFeishu(env.feishu)
      [] ch = "pushplus" -> SendToPushplus(env.pushplus)

\* _send_via_source_context: the DingTalk session, then the Feishu session,
\* each if the source message has one; an exception is logged.
SendViaSourceContext(env) ==
    LET d == IF env.dingtalk = "none" THEN << >>
             ELSE << Post("dingtalk_session", "markdown", 1, env.dingtalk) >>
        f == IF env.feishuSession = "none" THEN << >>
             ELSE << Post("feishu_session", "text", 1, env.feishuSession) >>
    IN  [ ret |-> env.dingtalk = "ok" \/ env.feishuSession = "ok", posts |-> d \o f ]

\* The loop without its except clause: an exception ends it.
RECURSIVE SendLoopNoExcept(_, _, _, _, _, _)
SendLoopNoExcept(chs, env, i, count, attempted, posts) ==
    IF i > Len(chs)
    THEN [ count |-> count, attempted |-> attempted, posts |-> posts ]
    ELSE LET r == SendToChannel(chs[i], env)
         IN  IF r.raised
             THEN [ count |-> count, attempted |-> Append(attempted, chs[i]),
                    posts |-> posts \o r.posts ]
             ELSE SendLoopNoExcept(chs, env, i + 1,
                                   IF r.ret THEN count + 1 ELSE count,
                                   Append(attempted, chs[i]), posts \o r.posts)

\* The loop of send from channel i on.
RECURSIVE SendLoop(_, _, _, _, _, _)
SendLoop(chs, env, i, count, attempted, posts) ==
    IF i > Len(chs)
    THEN [ count |-> count, attempted |-> attempted, posts |-> posts ]
    ELSE LET r == SendToChannel(chs[i], env)
         IN  SendLoop(chs, env, i + 1,
                      IF r.ret /\ ~r.raised THEN count + 1 ELSE count,
                      Append(attempted, chs[i]), posts \o r.posts)

\* The result with the context channels forgotten.
SendResultChannelsOnly(count, contextSuccess) == count > 0

\* return success_count > 0 or context_success
SendResult(count, contextSuccess) == count > 0 \/ contextSuccess

\* NotificationService.send
NotificationSend(chs, env) ==
    LET c == SendViaSourceContext(env)
    IN  IF chs = << >>
        THEN [ result |-> c.ret, attempted |-> << >>, posts |-> c.posts ]
        ELSE LET l == SendLoop(chs, env, 1, 0, << >>, << >>)
             IN  [ result |-> SendResult(l.count, c.ret), attempted |-> l.attempted,
                   posts |-> c.posts \o l.posts ]

\* The configured channels, in the order of detection.
ChannelLists ==
    { SelectSeq(ChannelOrder, LAMBDA ch : ch \in S) : S \in SUBSET Range(ChannelOrder) }

\* What the network does to the posts of one send.  A source message has a
\* DingTalk session, a Feishu session, both or none.
Environments ==
    [ wechat        : UNION { [ 1..n -> Fates ] : n \in 1..MaxChunks },
      feishu        : [ format : { "ok", "raise" }, card : Fates, text : Fates ],
      pushplus      : Fates,
      dingtalk      : Fates \cup { "none" },
      feishuSession : Fates \cup { "none" } ]

NoSendOp ==
    [ op |-> "none", channels |-> << >>, context |-> {}, result |-> FALSE,
      attempted |-> << >>, posts |-> << >> ]

\* The context channels the source message gives.
ContextOf(env) ==
    { c \in ContextChannels :
        \/ c = "dingtalk_session" /\ env.dingtalk # "none"
        \/ c = "feishu_session" /\ env.feishuSession # "none" }

\* One call of send.
Send ==
    /\ sendOp.op = "none"
    /\ \E chs \in ChannelLists, env \in Environments :
         LET r == NotificationSend(chs, env)
         IN  sendOp' = [ op |-> "send", channels |-> chs, context |-> ContextOf(env),
                         result |-> r.result, attempted |-> r.attempted,
                         posts |-> r.posts ]
    /\ UNCHANGED << source, fetchers, prio, lastOp, now, cache, cb, pc, loc, nCalls, hist, batch, ts, apiLog, quoteOp, executor, pools, runs, tasks, callers, clock, chunkOp, fetchOp, chipCb, chipLog, prefetchOp, cli, dailyOp, gate, sub, fullRun, splitOp, tgOp, sched, chunkSend, bsq >>

----------------------------------------------------------------------------
(* Chunked sending: _send_wechat_chunked, _send_wechat_force_chunked,      *)
(* _send_feishu_chunked, _send_feishu_force_chunked.  A text is what its   *)
(* pieces weigh in UTF-8 bytes.                                            *)

\* Most pieces (sections or lines) of one message in the model.
MaxParts == 3

\* wechat_max_bytes and feishu_max_bytes as configured by default, and the
\* cap send_to_wechat puts on a text-type message.
WechatMaxBytes == 4000
WechatTextMaxBytes == 2000
FeishuMaxBytes == 20000

\* effective_max_bytes = max_bytes - 50
WechatMarkerReserve == 50

\* _truncate_to_bytes(section, ... - 200)
TruncateReserve == 200

\* len(test_chunk.encode('utf-8')) > max_bytes - 100
ForceMarkerReserve == 100

\* "\n\n...(本段內容過長已截斷)" in UTF-8
TruncatedNoteBytes == 34

\* The page markers without their numbers: "\n\n📄 *(/)*" and "\n\n📄 (/)".
WechatMarkerBytes == 12
FeishuMarkerBytes == 10

\* How the content can be split: at "\n---\n", at "\n### ", at "\n## ", at
\* "\n**", or at none of them.
Splits == { "rule", "h3", "h2", "bold", "none" }

\* The splitters each function looks for.
SplitsOf(channel) ==
    IF channel = "wechat" THEN { "rule", "h3", "h2", "bold" } ELSE { "rule", "h3" }

\* Bytes of the text the content is split at.
TokenBytes(split) ==
    CASE split = "rule" -> 5
      [] split = "h3"   -> 5
      [] split = "h2"   -> 4
      [] split = "bold" -> 3
      [] split = "none" -> 1

\* Bytes put back in front of every section but the first: "### ", "## ", "**".
PrefixBytes(split) ==
    CASE split = "rule" -> 0
      [] split = "h3"   -> 4
      [] split = "h2"   -> 3
      [] split = "bold" -> 2
      [] split = "none" -> 0

\* get_bytes(separator): "\n---\n" or "\n".
SeparatorBytes(split) == IF split = "rule" THEN 5 ELSE 1

RECURSIVE SumSeq(_)
SumSeq(s) == IF s = << >> THEN 0 ELSE Head(s) + SumSeq(Tail(s))

\* len(content.encode('utf-8'))
ContentBytes(split, parts) == SumSeq(parts) + (Len(parts) - 1) * TokenBytes(split)

\* sections = [parts[0]] + [f"### {p}" for p in parts[1:]]
Sections(split, parts) ==
    [ i \in 1..Len(parts) |-> IF i = 1 THEN parts[i] ELSE parts[i] + PrefixBytes(split) ]

\* _truncate_to_bytes: the text as it is when it fits, else its first max
\* bytes (single-byte characters at the cut); encoded[:max] with a negative
\* max drops -max bytes from the end.
TruncateToBytes(b, max) ==
    IF max >= 0 THEN (IF b <= max THEN b ELSE max)
    ELSE Max(0, b + max)

\* The loop over the sections from section i on.  cur is current_bytes, n the
\* number of sections in current_chunk; a chunk is separator.join(current_chunk).
RECURSIVE SmartChunks(_, _, _, _, _, _, _)
SmartChunks(secs, sep, limit, i, chunks, cur, n) ==
    LET flushed == IF n > 0 THEN Append(chunks, cur - sep) ELSE chunks
    IN  IF i > Len(secs) THEN flushed
        ELSE LET sb == secs[i] + sep
             IN  IF sb > limit
                 THEN SmartChunks(secs, sep, limit, i + 1,
                                  Append(flushed,
                                         TruncateToBytes(secs[i], limit - TruncateReserve)
                                           + TruncatedNoteBytes),
                                  0, 0)
                 ELSE IF cur + sb > limit
                 THEN SmartChunks(secs, sep, limit, i + 1, flushed, sb, 1)
                 ELSE SmartChunks(secs, sep, limit, i + 1, chunks, cur + sb, n + 1)

\* The loop over the lines from line i on.  cur is the size of current_chunk.
RECURSIVE ForceChunks(_, _, _, _, _)
ForceChunks(lines, max, i, chunks, cur) ==
    IF i > Len(lines) THEN (IF cur > 0 THEN Append(chunks, cur) ELSE chunks)
    ELSE LET test == cur + (IF cur > 0 THEN 1 ELSE 0) + lines[i]
         IN  IF test > max - ForceMarkerReserve
             THEN ForceChunks(lines, max, i + 1,
                              IF cur > 0 THEN Append(chunks, cur) ELSE chunks, lines[i])
             ELSE ForceChunks(lines, max, i + 1, chunks, test)

\* len(str(n))
Digits(n) == IF n < 10 THEN 1 ELSE 2

\* chunk + page_marker, for every chunk: the marker is there when there is
\* more than one chunk.
WithMarkers(chunks, markerBytes) ==
    [ i \in 1..Len(chunks) |->
        IF Len(chunks) > 1
        THEN chunks[i] + markerBytes + Digits(i) + Digits(Len(chunks))
        ELSE chunks[i] ]

\* _send_wechat_chunked: the sizes of the messages it posts.
SendWechatChunked(split, parts, max) ==
    IF split = "none"
    THEN WithMarkers(ForceChunks(parts, max, 1, << >>, 0), WechatMarkerBytes)
    ELSE WithMarkers(SmartChunks(Sections(split, parts), SeparatorBytes(split),
                                 max - WechatMarkerReserve, 1, << >>, 0, 0),
                     WechatMarkerBytes)

\* _send_feishu_chunked: the sizes of the messages it posts.
SendFeishuChunked(split, parts, max) ==
    IF split = "none"
    THEN WithMarkers(ForceChunks(parts, max, 1, << >>, 0), FeishuMarkerBytes)
    ELSE WithMarkers(SmartChunks(Sections(split, parts), SeparatorBytes(split),
                                 max, 1, << >>, 0, 0),
                     FeishuMarkerBytes)

(* What the chunks hold: the same loops, followed for the text they put in  *)
(* each chunk.  A piece is bytes lo..hi of section sec, and note says that  *)
(* the truncation notice follows it.  _chunk_markdown_by_bytes,             *)
(* _send_dingtalk_chunked, _send_telegram_chunked and                       *)
(* _send_feishu_stream_chunked are the chunked senders of the other         *)
(* channels.                                                                *)

\* One character in EscapeEvery of a dense text is a line break or a quote,
\* which json.dumps writes in two bytes.
EscapeEvery == 10

\* _send_dingtalk_chunked(url, content, max_bytes=20000)
DingtalkMaxBytes == 20000

\* budget = max(1000, max_bytes - 1500)
DingtalkPayloadReserve == 1500
DingtalkMinBudget == 1000

\* json.dumps of the payload with an empty text:
\* {"msgtype": "markdown", "markdown": {"title": "股票分析報告", "text": ""}}
DingtalkPayloadBytes == 80

\* split_by_bytes(section, max(200, max_bytes - 200)), and
\* hard_budget = max(200, budget - (body_bytes - max_bytes) - 200)
SplitReserve == 200
MinSplitBytes == 200

\* max_length = 4096, in characters
TelegramMaxLength == 4096

\* len(section) + 5
TelegramRuleLength == 5

Whole(secs, i) == [ sec |-> i, lo |-> 0, hi |-> secs[i], note |-> FALSE ]

\* The sections of _send_wechat_chunked / _send_feishu_chunked from section i
\* on: current is current_chunk, cur is current_bytes.
RECURSIVE SmartPieces(_, _, _, _, _, _, _)
SmartPieces(secs, sep, limit, i, chunks, cur, current) ==
    LET flushed == IF current # << >> THEN Append(chunks, current) ELSE chunks
    IN  IF i > Len(secs) THEN flushed
        ELSE LET sb == secs[i] + sep
             IN  IF sb > limit
                 THEN SmartPieces(secs, sep, limit, i + 1,
                                  Append(flushed,
                                         << [ sec |-> i, lo |-> 0,
                                              hi |-> TruncateToBytes(secs[i],
                                                         limit - TruncateReserve),
                                              note |-> TRUE ] >>),
                                  0, << >>)
                 ELSE IF cur + sb > limit
                 THEN SmartPieces(secs, sep, limit, i + 1, flushed, sb,
                                  << Whole(secs, i) >>)
                 ELSE SmartPieces(secs, sep, limit, i + 1, chunks, cur + sb,
                                  Append(current, Whole(secs, i)))

\* The lines of _send_wechat_force_chunked / _send_feishu_force_chunked from
\* line i on: current is current_chunk, cur its size.
RECURSIVE ForcePieces(_, _, _, _, _, _)
ForcePieces(lines, max, i, chunks, cur, current) ==
    LET flushed == IF current # << >> THEN Append(chunks, current) ELSE chunks
    IN  IF i > Len(lines) THEN flushed
        ELSE LET test == cur + (IF cur > 0 THEN 1 ELSE 0) + lines[i]
             IN  IF test > max - ForceMarkerReserve
                 THEN ForcePieces(lines, max, i + 1, flushed, lines[i],
                                  << Whole(lines, i) >>)
                 ELSE ForcePieces(lines, max, i + 1, chunks, test,
                                  Append(current, Whole(lines, i)))

\* The loop of _send_telegram_chunked and of _send_feishu_stream_chunked from
\* section i on: no section is cut.
RECURSIVE PlainPieces(_, _, _, _, _, _, _)
PlainPieces(secs, sep, limit, i, chunks, cur, current) ==
    LET flushed == IF current # << >> THEN Append(chunks, current) ELSE chunks
    IN  IF i > Len(secs) THEN flushed
        ELSE LET sb == secs[i] + sep
             IN  IF cur + sb > limit
                 THEN PlainPieces(secs, sep, limit, i + 1, flushed, sb,
                                  << Whole(secs, i) >>)
                 ELSE PlainPieces(secs, sep, limit, i + 1, chunks, cur + sb,
                                  Append(current, Whole(secs, i)))

\* split_by_bytes(text, limit) of section i from byte lo on (single-byte
\* characters at the cuts).
RECURSIVE SplitByBytes(_, _, _, _)
SplitByBytes(i, b, limit, lo) ==
    IF lo >= b THEN << >>
    ELSE LET hi == lo + TruncateToBytes(b - lo, limit)
         IN  << << [ sec |-> i, lo |-> lo, hi |-> hi, note |-> FALSE ] >> >>
               \o SplitByBytes(i, b, limit, hi)

\* The loop of _chunk_markdown_by_bytes from section i on.  The sections of
\* the model hold text, so that no chunk is empty after strip().
RECURSIVE MarkdownPieces(_, _, _, _, _, _, _)
MarkdownPieces(secs, sep, max, i, chunks, cur, current) ==
    LET flushed == IF current # << >> THEN Append(chunks, current) ELSE chunks
    IN  IF i > Len(secs) THEN flushed
        ELSE LET extra == IF current # << >> THEN sep ELSE 0
             IN  IF secs[i] + extra > max
                 THEN MarkdownPieces(secs, sep, max, i + 1,
                                     flushed \o SplitByBytes(i, secs[i],
                                                    Max(MinSplitBytes, max - SplitReserve), 0),
                                     0, << >>)
                 ELSE IF cur + secs[i] + extra > max
                 THEN MarkdownPieces(secs, sep, max, i + 1, Append(chunks, current),
                                     secs[i], << Whole(secs, i) >>)
                 ELSE MarkdownPieces(secs, sep, max, i + 1, chunks,
                                     cur + extra + secs[i],
                                     Append(current, Whole(secs, i)))

\* Bytes of separator.join(current_chunk), the truncation notice included.
RECURSIVE PiecesBytes(_, _)
PiecesBytes(ps, sep) ==
    IF ps = << >> THEN 0
    ELSE (Head(ps).hi - Head(ps).lo)
           + (IF Head(ps).note THEN TruncatedNoteBytes ELSE 0)
           + (IF Len(ps) > 1 THEN sep ELSE 0)
           + PiecesBytes(Tail(ps), sep)

NoMarker == << 0, 0 >>

\* The messages posted for the chunks: each chunk with its page marker when
\* there is more than one chunk.  cut is how much of the chunk is taken off
\* its end before it is posted.
PostWithMarkers(chunks, sep, markerBytes) ==
    [ i \in 1..Len(chunks) |->
        [ pieces |-> chunks[i],
          marker |-> IF Len(chunks) > 1 THEN << i, Len(chunks) >> ELSE NoMarker,
          bytes  |-> PiecesBytes(chunks[i], sep)
                       + (IF Len(chunks) > 1
                          THEN markerBytes + Digits(i) + Digits(Len(chunks)) ELSE 0),
          cut    |-> 0 ] ]

\* The messages posted for the chunks by the senders that add no page marker.
PostPlain(chunks, sep) ==
    [ i \in 1..Len(chunks) |->
        [ pieces |-> chunks[i], marker |-> NoMarker,
          bytes  |-> PiecesBytes(chunks[i], sep), cut |-> 0 ] ]

\* _send_wechat_chunked: the messages it posts.
WechatPosted(split, parts, max) ==
    IF split = "none"
    THEN PostWithMarkers(ForcePieces(parts, max, 1, << >>, 0, << >>), 1, WechatMarkerBytes)
    ELSE PostWithMarkers(SmartPieces(Sections(split, parts), SeparatorBytes(split),
                                     max - WechatMarkerReserve, 1, << >>, 0, << >>),
                         SeparatorBytes(split), WechatMarkerBytes)

\* _send_feishu_chunked: the messages it posts.
FeishuPosted(split, parts, max) ==
    IF split = "none"
    THEN PostWithMarkers(ForcePieces(parts, max, 1, << >>, 0, << >>), 1, FeishuMarkerBytes)
    ELSE PostWithMarkers(SmartPieces(Sections(split, parts), SeparatorBytes(split),
                                     max, 1, << >>, 0, << >>),
                         SeparatorBytes(split), FeishuMarkerBytes)

\* _send_telegram_chunked: sections are what lies between "\n---\n", counted
\* in characters.
TelegramPosted(parts) ==
    PostPlain(PlainPieces(parts, TelegramRuleLength, TelegramMaxLength, 1, << >>, 0, << >>),
              TelegramRuleLength)

\* _send_feishu_stream_chunked: sections by "\n---\n", by "\n### " or by line.
FeishuStreamPosted(split, parts, max) ==
    PostPlain(PlainPieces(Sections(split, parts), SeparatorBytes(split), max,
                          1, << >>, 0, << >>),
              SeparatorBytes(split))

\* Bytes json.dumps adds to a text of b bytes.
EscapeBytes(b, dense) == IF dense THEN b \div EscapeEvery ELSE 0

\* _send_dingtalk_chunked: the messages it posts.  A message whose body is
\* over max_bytes is cut to hard_budget bytes.
DingtalkPosted(split, parts, dense) ==
    LET budget == Max(DingtalkMinBudget, DingtalkMaxBytes - DingtalkPayloadReserve)
        texts  == PostWithMarkers(MarkdownPieces(Sections(split, parts),
                                                 SeparatorBytes(split), budget,
                                                 1, << >>, 0, << >>),
                                  SeparatorBytes(split), WechatMarkerBytes)
    IN  [ i \in 1..Len(texts) |->
            LET text == texts[i].bytes
                body == DingtalkPayloadBytes + text + EscapeBytes(text, dense)
                hard == Max(MinSplitBytes,
                            budget - (body - DingtalkMaxBytes) - SplitReserve)
                kept == IF body > DingtalkMaxBytes THEN TruncateToBytes(text, hard)
                        ELSE text
            IN  [ texts[i] EXCEPT !.bytes  = kept,
                                  !.cut    = Max(0, PiecesBytes(texts[i].pieces,
                                                                SeparatorBytes(split)) - kept),
                                  !.marker = IF kept < text THEN NoMarker ELSE @ ] ]

\* The budgets a channel can run with.
Budgets(channel) ==
    IF channel = "wechat" THEN { WechatMaxBytes, WechatTextMaxBytes } ELSE { FeishuMaxBytes }

\* Sizes of a piece: short, half the budget, just under it, and over it.
PartSizes(max) == { 10, max \div 2, max - 60, max - 1, max + 500 }

NoChunkOp ==
    [ op |-> "none", channel |-> "none", maxBytes |-> 0, split |-> "none",
      parts |-> << >>, sent |-> << >>, posted |-> << >> ]

\* send_to_wechat / send_to_feishu with a content longer than the budget.
SendChunked ==
    /\ chunkOp.op = "none"
    /\ \E channel \in { "wechat", "feishu" } :
       \E max \in Budgets(channel), split \in SplitsOf(channel) \cup { "none" } :
       \E parts \in UNION { [ 1..n -> PartSizes(max) ] : n \in 1..MaxParts } :
         /\ split # "none" => Len(parts) >= 2
         /\ ContentBytes(split, parts) > max
         /\ chunkOp' = [ op |-> "chunked", channel |-> channel, maxBytes |-> max,
                         split |-> split, parts |-> parts,
                         sent |-> IF channel = "wechat"
                                  THEN SendWechatChunked(split, parts, max)
                                  ELSE SendFeishuChunked(split, parts, max),
                         posted |-> IF channel = "wechat"
                                    THEN WechatPosted(split, parts, max)
                                    ELSE FeishuPosted(split, parts, max) ]
    /\ UNCHANGED << source, fetchers, prio, lastOp, now, cache, cb, pc, loc, nCalls, hist, batch, ts, apiLog, quoteOp, executor, pools, runs, tasks, callers, clock, sendOp, fetchOp, chipCb, chipLog, prefetchOp, cli, dailyOp, gate, sub, fullRun, splitOp, tgOp, sched, chunkSend, bsq >>

\* _send_dingtalk_chunked through send_to_custom / _send_via_source_context.
SendDingtalkChunked ==
    /\ chunkOp.op = "none"
    /\ \E split \in { "rule", "h3", "none" }, dense \in BOOLEAN :
       \E parts \in UNION { [ 1..n -> PartSizes(DingtalkMaxBytes - DingtalkPayloadReserve) ]
                              : n \in 1..MaxParts } :
         /\ split # "none" => Len(parts) >= 2
         /\ LET posted == DingtalkPosted(split, parts, dense)
            IN  chunkOp' = [ op |-> "chunked", channel |-> "dingtalk",
                             maxBytes |-> DingtalkMaxBytes, split |-> split,
                             parts |-> parts,
                             sent |-> [ i \in 1..Len(posted) |-> posted[i].bytes ],
                             posted |-> posted ]
    /\ UNCHANGED << source, fetchers, prio, lastOp, now, cache, cb, pc, loc, nCalls, hist, batch, ts, apiLog, quoteOp, executor, pools, runs, tasks, callers, clock, sendOp, fetchOp, chipCb, chipLog, prefetchOp, cli, dailyOp, gate, sub, fullRun, splitOp, tgOp, sched, chunkSend, bsq >>

\* send_to_telegram with a content of more than max_length characters.
SendTelegramChunked ==
    /\ chunkOp.op = "none"
    /\ \E split \in { "rule", "none" } :
       \E parts \in UNION { [ 1..n -> PartSizes(TelegramMaxLength) ] : n \in 1..MaxParts } :
         /\ split # "none" => Len(parts) >= 2
         /\ split = "none" => Len(parts) = 1
         /\ ContentBytes(split, parts) > TelegramMaxLength
         /\ LET posted == TelegramPosted(parts)
            IN  chunkOp' = [ op |-> "chunked", channel |-> "telegram",
                             maxBytes |-> TelegramMaxLength, split |-> split,
                             parts |-> parts,
                             sent |-> [ i \in 1..Len(posted) |-> posted[i].bytes ],
                             posted |-> posted ]
    /\ UNCHANGED << source, fetchers, prio, lastOp, now, cache, cb, pc, loc, nCalls, hist, batch, ts, apiLog, quoteOp, executor, pools, runs, tasks, callers, clock, sendOp, fetchOp, chipCb, chipLog, prefetchOp, cli, dailyOp, gate, sub, fullRun, splitOp, tgOp, sched, chunkSend, bsq >>

\* _send_feishu_stream_reply with a content longer than feishu_max_bytes.
SendFeishuStreamChunked ==
    /\ chunkOp.op = "none"
    /\ \E split \in { "rule", "h3", "none" } :
       \E parts \in UNION { [ 1..n -> PartSizes(FeishuMaxBytes) ] : n \in 1..MaxParts } :
         /\ split # "none" => Len(parts) >= 2
         /\ ContentBytes(split, parts) > FeishuMaxBytes
         /\ LET posted == FeishuStreamPosted(split, parts, FeishuMaxBytes)
            IN  chunkOp' = [ op |-> "chunked", channel |-> "feishuStream",
                             maxBytes |-> FeishuMaxBytes, split |-> split,
                             parts |-> parts,
                             sent |-> [ i \in 1..Len(posted) |-> posted[i].bytes ],
                             posted |-> posted ]
    /\ UNCHANGED << source, fetchers, prio, lastOp, now, cache, cb, pc, loc, nCalls, hist, batch, ts, apiLog, quoteOp, executor, pools, runs, tasks, callers, clock, sendOp, fetchOp, chipCb, chipLog, prefetchOp, cli, dailyOp, gate, sub, fullRun, splitOp, tgOp, sched, chunkSend, bsq >>

----------------------------------------------------------------------------
(* One fetcher operation: _fetch_raw_data under its tenacity retry wrapper  *)
(* (efinance, akshare, tushare, baostock, yfinance) and the Baostock        *)
(* operations that open a session (_baostock_session).                      *)

\* The fetchers whose _fetch_raw_data is modelled.
RetryFetchers ==
    { "EfinanceFetcher", "AkshareFetcher", "TushareFetcher", "BaostockFetcher",
      "YfinanceFetcher" }

\* stop=stop_after_attempt(3); stop_after_attempt(1) for efinance
StopAttempts == 3
EfinanceStopAttempts == 1
StopAfterAttempt(f) == IF f = "EfinanceFetcher" THEN EfinanceStopAttempts ELSE StopAttempts

\* wait=wait_exponential(multiplier=1, min=2, max=30); min=4, max=60 for efinance
WaitMin == 2
WaitMax == 30
EfinanceWaitMin == 4
EfinanceWaitMax == 60

RECURSIVE Pow2(_)
Pow2(n) == IF n = 0 THEN 1 ELSE 2 * Pow2(n - 1)

\* tenacity's wait_exponential after the given attempt:
\* max(min, min(multiplier * 2 ** (attempt_number - 1), max))
WaitExponential(f, attempt) ==
    IF f = "EfinanceFetcher"
    THEN Max(EfinanceWaitMin, IF Pow2(attempt - 1) < EfinanceWaitMax
                              THEN Pow2(attempt - 1) ELSE EfinanceWaitMax)
    ELSE Max(WaitMin, IF Pow2(attempt - 1) < WaitMax THEN Pow2(attempt - 1) ELSE WaitMax)

\* retry=retry_if_exception_type((ConnectionError, TimeoutError)); efinance
\* adds the exceptions of requests.
RetriedTypes(f) ==
    IF f = "EfinanceFetcher"
    THEN { "ConnectionError", "TimeoutError", "RequestException" }
    ELSE { "ConnectionError", "TimeoutError" }

\* What an upstream call can do: give data, give nothing, answer with an error
\* code, or raise a network error, a timeout or another exception.
NetworkErrors == { "ConnectionError", "TimeoutError" }
Raises == NetworkErrors \cup { "ValueError" }
CallOutcomes == { "ok", "empty" } \cup Raises
SessionOutcomes == { "ok", "errcode" } \cup Raises

\* The fetchers that refuse a US ticker before any upstream call.
RefusesUs(f) == f \in { "EfinanceFetcher", "TushareFetcher", "BaostockFetcher" }

NoFetchOp ==
    [ fetcher |-> "none", op |-> "none", pc |-> "idle", attempt |-> 0, method |-> 0,
      log |-> << >>, waits |-> << >>, exc |-> "none", result |-> "none" ]

\* Where an attempt begins: Baostock logs in, the others call upstream.
FirstStep(f) == IF f = "BaostockFetcher" THEN "login" ELSE "call"

LogEntry(call, outcome) ==
    [ call |-> call, attempt |-> fetchOp.attempt, outcome |-> outcome ]

\* The caller enters _fetch_raw_data (op "daily"), or get_stock_name /
\* get_stock_list of Baostock (op "name", "list").  cached: the name is in
\* _stock_name_cache.
FetchBegin ==
    /\ fetchOp.pc = "idle"
    /\ \E f \in RetryFetchers, op \in { "daily", "name", "list" }, us, cached \in BOOLEAN :
         /\ op # "daily" => f = "BaostockFetcher" /\ ~us
         /\ cached => op = "name"
         /\ fetchOp' =
              [ NoFetchOp EXCEPT
                  !.fetcher = f, !.op = op, !.attempt = 1, !.method = 1,
                  !.pc = IF cached THEN "done"
                         ELSE IF op = "daily" /\ us /\ RefusesUs(f) THEN "decide"
                         ELSE FirstStep(f),
                  !.exc = IF op = "daily" /\ us /\ RefusesUs(f) THEN "DataFetchError"
                          ELSE "none",
                  !.result = IF cached THEN "name" ELSE "none" ]
    /\ UNCHANGED << source, fetchers, prio, lastOp, now, cache, cb, pc, loc, nCalls, hist, batch, ts, apiLog, quoteOp, executor, pools, runs, tasks, callers, clock, sendOp, chunkOp, chipCb, chipLog, prefetchOp, cli, dailyOp, gate, sub, fullRun, splitOp, tgOp, sched, chunkSend, bsq >>

\* _baostock_session up to the yield: bs.login().  A login that raises or
\* answers with an error code leaves through the finally clause.
BaostockLogin ==
    /\ fetchOp.pc = "login"
    /\ \E o \in SessionOutcomes :
         fetchOp' =
           [ fetchOp EXCEPT
               !.log = Append(@, LogEntry("login", o)),
               !.pc  = IF o = "ok" THEN "query" ELSE "logout",
               !.exc = IF o = "ok" THEN "none"
                       ELSE IF o = "errcode" THEN "DataFetchError" ELSE o ]
    /\ UNCHANGED << source, fetchers, prio, lastOp, now, cache, cb, pc, loc, nCalls, hist, batch, ts, apiLog, quoteOp, executor, pools, runs, tasks, callers, clock, sendOp, chunkOp, chipCb, chipLog, prefetchOp, cli, dailyOp, gate, sub, fullRun, splitOp, tgOp, sched, chunkSend, bsq >>

\* The exception the body of the with statement leaves with.  _fetch_raw_data
\* turns every failure of the query into a DataFetchError; get_stock_name and
\* get_stock_list let an error code or an empty answer fall through.
BodyException(op, o) ==
    IF op = "daily" THEN (IF o = "ok" THEN "none" ELSE "DataFetchError")
    ELSE (IF o \in Raises THEN o ELSE "none")

\* Where the body of the with statement leaves to: the finally clause of
\* _baostock_session, on every way out.
AfterBodyNoFinally(o) == IF o = "ok" THEN "logout" ELSE "decide"

AfterBody(o) == "logout"

\* The body of the with statement: bs.query_history_k_data_plus or
\* bs.query_stock_basic and the reading of its rows.
BaostockQuery ==
    /\ fetchOp.pc = "query"
    /\ \E o \in CallOutcomes \cup { "errcode" } :
         fetchOp' =
           [ fetchOp EXCEPT
               !.log    = Append(@, LogEntry("query", o)),
               !.pc     = AfterBody(o),
               !.exc    = BodyException(fetchOp.op, o),
               !.result = IF o = "ok"
                          THEN (IF fetchOp.op = "daily" THEN "data" ELSE "name")
                          ELSE "none" ]
    /\ UNCHANGED << source, fetchers, prio, lastOp, now, cache, cb, pc, loc, nCalls, hist, batch, ts, apiLog, quoteOp, executor, pools, runs, tasks, callers, clock, sendOp, chunkOp, chipCb, chipLog, prefetchOp, cli, dailyOp, gate, sub, fullRun, splitOp, tgOp, sched, chunkSend, bsq >>

\* The finally clause of _baostock_session: bs.logout(); what it answers or
\* raises is logged and the pending exception carries on.
BaostockLogout ==
    /\ fetchOp.pc = "logout"
    /\ \E o \in { "ok", "errcode", "ValueError" } :
         fetchOp' = [ fetchOp EXCEPT !.log = Append(@, LogEntry("logout", o)),
                                     !.pc  = "decide" ]
    /\ UNCHANGED << source, fetchers, prio, lastOp, now, cache, cb, pc, loc, nCalls, hist, batch, ts, apiLog, quoteOp, executor, pools, runs, tasks, callers, clock, sendOp, chunkOp, chipCb, chipLog, prefetchOp, cli, dailyOp, gate, sub, fullRun, splitOp, tgOp, sched, chunkSend, bsq >>

\* The upstream call of efinance, tushare or yfinance inside its try block:
\* every exception is raised again as DataFetchError (or RateLimitError, one
\* of its subclasses); yfinance raises it for an empty answer too.
WrappedException(f, o) ==
    IF o \in Raises THEN "DataFetchError"
    ELSE IF o = "empty" /\ f = "YfinanceFetcher" THEN "DataFetchError"
    ELSE "none"

UpstreamCall ==
    /\ fetchOp.pc = "call"
    /\ fetchOp.fetcher \in { "EfinanceFetcher", "TushareFetcher", "YfinanceFetcher" }
    /\ \E o \in CallOutcomes :
         fetchOp' =
           [ fetchOp EXCEPT
               !.log    = Append(@, LogEntry("call", o)),
               !.pc     = "decide",
               !.exc    = WrappedException(fetchOp.fetcher, o),
               !.result = IF WrappedException(fetchOp.fetcher, o) = "none"
                          THEN "data" ELSE "none" ]
    /\ UNCHANGED << source, fetchers, prio, lastOp, now, cache, cb, pc, loc, nCalls, hist, batch, ts, apiLog, quoteOp, executor, pools, runs, tasks, callers, clock, sendOp, chunkOp, chipCb, chipLog, prefetchOp, cli, dailyOp, gate, sub, fullRun, splitOp, tgOp, sched, chunkSend, bsq >>

\* The channels _fetch_stock_data of akshare goes through.
AkshareMethods == << "em", "sina", "tx" >>

\* One channel of AkshareFetcher._fetch_stock_data: data ends the loop, an
\* empty answer or an exception goes on to the next channel, and after the
\* last one DataFetchError is raised.
AkshareCall ==
    /\ fetchOp.pc = "call"
    /\ fetchOp.fetcher = "AkshareFetcher"
    /\ \E o \in CallOutcomes :
         fetchOp' =
           [ fetchOp EXCEPT
               !.log    = Append(@, LogEntry(AkshareMethods[fetchOp.method], o)),
               !.method = IF o # "ok" /\ @ < Len(AkshareMethods) THEN @ + 1 ELSE @,
               !.pc     = IF o # "ok" /\ fetchOp.method < Len(AkshareMethods)
                          THEN "call" ELSE "decide",
               !.exc    = IF o # "ok" /\ fetchOp.method = Len(AkshareMethods)
                          THEN "DataFetchError" ELSE "none",
               !.result = IF o = "ok" THEN "data" ELSE "none" ]
    /\ UNCHANGED << source, fetchers, prio, lastOp, now, cache, cb, pc, loc, nCalls, hist, batch, ts, apiLog, quoteOp, executor, pools, runs, tasks, callers, clock, sendOp, chunkOp, chipCb, chipLog, prefetchOp, cli, dailyOp, gate, sub, fullRun, splitOp, tgOp, sched, chunkSend, bsq >>

\* What the retry wrapper does with the exception of an attempt: "again",
\* "give up" (RetryError after the last attempt) or "pass" it on.
RetryDecision(f, exc, attempt) ==
    IF exc = "none" THEN "return"
    ELSE IF exc \notin RetriedTypes(f) THEN "pass"
    ELSE IF attempt < StopAfterAttempt(f) THEN "again"
    ELSE "give up"

\* The attempt of _fetch_raw_data is over and the retry wrapper decides.
RetryStep ==
    /\ fetchOp.pc = "decide"
    /\ fetchOp.op = "daily"
    /\ LET d == RetryDecision(fetchOp.fetcher, fetchOp.exc, fetchOp.attempt)
       IN  fetchOp' =
             IF d = "again"
             THEN [ fetchOp EXCEPT
                      !.waits   = Append(@, WaitExponential(fetchOp.fetcher, fetchOp.attempt)),
                      !.attempt = @ + 1,
                      !.method  = 1,
                      !.exc     = "none",
                      !.pc      = FirstStep(fetchOp.fetcher) ]
             ELSE [ fetchOp EXCEPT
                      !.pc     = "done",
                      !.exc    = IF d = "give up" THEN "RetryError" ELSE @,
                      !.result = IF d = "return" THEN @ ELSE "raised" ]
    /\ UNCHANGED << source, fetchers, prio, lastOp, now, cache, cb, pc, loc, nCalls, hist, batch, ts, apiLog, quoteOp, executor, pools, runs, tasks, callers, clock, sendOp, chunkOp, chipCb, chipLog, prefetchOp, cli, dailyOp, gate, sub, fullRun, splitOp, tgOp, sched, chunkSend, bsq >>

\* get_stock_name / get_stock_list after the with statement: an exception is
\* caught and logged, and None is returned unless a name was found.
NameReturn ==
    /\ fetchOp.pc = "decide"
    /\ fetchOp.op \in { "name", "list" }
    /\ fetchOp' = [ fetchOp EXCEPT
                      !.pc     = "done",
                      !.exc    = "none",
                      !.result = IF fetchOp.exc = "none" /\ @ = "name" THEN "name" ELSE "nil" ]
    /\ UNCHANGED << source, fetchers, prio, lastOp, now, cache, cb, pc, loc, nCalls, hist, batch, ts, apiLog, quoteOp, executor, pools, runs, tasks, callers, clock, sendOp, chunkOp, chipCb, chipLog, prefetchOp, cli, dailyOp, gate, sub, fullRun, splitOp, tgOp, sched, chunkSend, bsq >>

----------------------------------------------------------------------------
(* DataFetcherManager.get_chip_distribution and the chip circuit breaker    *)

\* Chips requests in one run.
MaxChipOps == 4

\* chip_sources
ChipSources ==
    << [ fetcher |-> "AkshareFetcher",  key |-> "akshare_chip" ],
       [ fetcher |-> "TushareFetcher",  key |-> "tushare_chip" ],
       [ fetcher |-> "EfinanceFetcher", key |-> "efinance_chip" ] >>

ChipKeys == { ChipSources[i].key : i \in 1..Len(ChipSources) }

\* hasattr(fetcher, 'get_chip_distribution'): AkshareFetcher defines it.
HasChipMethod(f) == f = "AkshareFetcher"

\* What AkshareFetcher.get_chip_distribution can come to for a code: "skip"
\* (US ticker or ETF, no call), a chip, an empty answer, an upstream error
\* (caught and logged), or an exception before the try block (the import).
ChipOutcomes == { "skip", "chip", "empty", "error", "raise" }

\* AkshareFetcher.get_chip_distribution: a ChipDistribution or None; only an
\* exception before its try block leaves it.
FetcherChipResult(o) ==
    CASE o = "chip"  -> "chip"
      [] o = "raise" -> "raise"
      [] OTHER       -> "none"

\* The loop of get_chip_distribution from source i on: a source whose breaker
\* is open is passed over; a chip is recorded as a success and returned; an
\* exception is recorded as a failure; None goes on to the next source.
RECURSIVE ChipLoop(_, _, _, _, _, _, _)
ChipLoop(fs, o, t, i, cbs, calls, result) ==
    IF i > Len(ChipSources) \/ result # "nil"
    THEN [ cb |-> cbs, calls |-> calls, result |-> result ]
    ELSE LET s == ChipSources[i]
         IN  IF ~IsAvailable(cbs[s.key], t)
             THEN ChipLoop(fs, o, t, i + 1, cbs, calls, result)
             ELSE IF ~(HasFetcher(fs, s.fetcher) /\ HasChipMethod(s.fetcher))
             THEN ChipLoop(fs, o, t, i + 1, cbs, calls, result)
             ELSE LET r    == FetcherChipResult(o)
                      call == [ key |-> s.key, time |-> t, outcome |-> o ]
                  IN  CASE r = "chip" ->
                             ChipLoop(fs, o, t, i + 1,
                                      [ cbs EXCEPT ![s.key] = RecordSuccess(@) ],
                                      Append(calls, call), s.key)
                        [] r = "raise" ->
                             ChipLoop(fs, o, t, i + 1,
                                      [ cbs EXCEPT ![s.key] = RecordFailure(@, t) ],
                                      Append(calls, call), result)
                        [] OTHER ->
                             ChipLoop(fs, o, t, i + 1, cbs, Append(calls, call), result)

\* get_chip_distribution(stock_code) of the manager.
GetChipDistribution ==
    /\ Len(chipLog) < MaxChipOps
    /\ \E enabled \in BOOLEAN, o \in ChipOutcomes :
         LET r == IF enabled
                  THEN ChipLoop(fetchers, o, now, 1, chipCb, << >>, "nil")
                  ELSE [ cb |-> chipCb, calls |-> << >>, result |-> "nil" ]
         IN  /\ chipCb' = r.cb
             /\ chipLog' = Append(chipLog, [ enabled |-> enabled, calls |-> r.calls,
                                             result |-> r.result ])
    /\ UNCHANGED << source, fetchers, prio, lastOp, now, cache, cb, pc, loc, nCalls, hist, batch, ts, apiLog, quoteOp, executor, pools, runs, tasks, callers, clock, sendOp, chunkOp, fetchOp, prefetchOp, cli, dailyOp, gate, sub, fullRun, splitOp, tgOp, sched, chunkSend, bsq >>

InitChips ==
    /\ chipCb = [ k \in ChipKeys |-> CbInit ]
    /\ chipLog = << >>

----------------------------------------------------------------------------
(* DataFetcherManager.prefetch_realtime_quotes, with any preference list    *)

\* Most symbols of one prefetch in the model.
MaxPrefetchCodes == 6

\* bulk_sources
BulkSources == { "efinance", "akshare_em", "tushare" }

\* first_bulk_source_index >= 2 skips the prefetch: the entries that count are
\* the first two.
BulkEntries == 2

\* The first entry of the list that names a bulk source, counted from 1; 0
\* when there is none.
RECURSIVE FirstBulkSourceIndex(_, _)
FirstBulkSourceIndex(pref, i) ==
    IF i > Len(pref) THEN 0
    ELSE IF StripLower(pref[i]) \in BulkSources THEN i
    ELSE FirstBulkSourceIndex(pref, i + 1)

\* The preference lists of a prefetch: a bulk source first, second, third,
\* and none.
PrefetchPrefs ==
    { << "efinance", "tencent" >>, << "tencent", "efinance" >>,
      << "tencent", "akshare_sina", "efinance" >>, << "tencent", "akshare_sina" >> }

\* The first symbol of the batch: an A-share code or a US ticker.
FirstCodes == { << "6", "6" >>, << "A", "A" >> }

\* prefetch_realtime_quotes(stock_codes): n is len(stock_codes), first is
\* stock_codes[0].  ret is what it returns, quotes the number of Quote
\* requests it makes, called the fetcher calls of those.
PrefetchQuotes(fs, enabled, pref, n, first, resp) ==
    LET idx  == FirstBulkSourceIndex(pref, 1)
        skip == [ ret |-> 0, quotes |-> 0, called |-> << >> ]
    IN  IF ~enabled THEN skip
        ELSE IF idx = 0 \/ idx > BulkEntries THEN skip
        ELSE IF n < PrefetchMinCodes THEN skip
        ELSE LET q == ManagerGetRealtimeQuote(fs, enabled, first, pref, resp)
             IN  [ ret    |-> IF q.result # "nil" THEN n ELSE 0,
                   quotes |-> 1,
                   called |-> q.called ]

NoPrefetchOp ==
    [ op |-> "none", enabled |-> TRUE, pref |-> << >>, n |-> 0, first |-> << >>,
      resp |-> << >>, ret |-> 0, quotes |-> 0, called |-> << >> ]

\* One prefetch before a batch.
Prefetch ==
    /\ prefetchOp.op = "none"
    /\ \E enabled \in BOOLEAN, pref \in PrefetchPrefs, n \in 0..MaxPrefetchCodes,
          first \in FirstCodes :
       \E resp \in [ 1..Len(pref) -> QuoteKinds ] :
         LET r == PrefetchQuotes(fetchers, enabled, pref, n, first, resp)
         IN  prefetchOp' = [ op |-> "prefetch", enabled |-> enabled, pref |-> pref,
                             n |-> n, first |-> first, resp |-> resp,
                             ret |-> r.ret, quotes |-> r.quotes, called |-> r.called ]
    /\ UNCHANGED << source, fetchers, prio, lastOp, now, cache, cb, pc, loc, nCalls, hist, batch, ts, apiLog, quoteOp, executor, pools, runs, tasks, callers, clock, sendOp, chunkOp, fetchOp, chipCb, chipLog, cli, dailyOp, gate, sub, fullRun, splitOp, tgOp, sched, chunkSend, bsq >>

----------------------------------------------------------------------------
(* The command line programs: main.py and webui.py *)

\* How many scheduled runs a behaviour follows.
MaxRuns == 3

\* str.strip() of one piece of a comma-separated STOCK_LIST.
StripCode(c) == IF c = " " THEN "" ELSE IF c = " 2317.TW" THEN "2317.TW" ELSE c

\* The values STOCK_LIST can have, each as str.split(',') cuts it.
StockListStrings ==
    { <<"">>, <<" ">>, <<"2330.TW">>, <<"2330.TW", " 2317.TW">>, <<"", "2454.TW", " ">> }

\* [code.strip() for code in s.split(',') if code.strip()]
RECURSIVE ParseStockList(_)
ParseStockList(p) ==
    IF p = << >> THEN << >>
    ELSE IF StripCode(Head(p)) = "" THEN ParseStockList(Tail(p))
         ELSE <<StripCode(Head(p))>> \o ParseStockList(Tail(p))

\* s.strip() == '' for a string cut into its pieces.
IsBlank(p) == Len(p) = 1 /\ StripCode(p[1]) = ""

\* Config._load_from_env: the watchlist at startup.
LoadStockList(env) ==
    IF ParseStockList(env) = << >> THEN <<"2330.TW", "2317.TW", "2454.TW">>
    ELSE ParseStockList(env)

\* Config.refresh_stock_list: the .env file first, the environment when the
\* file has no STOCK_LIST.
RefreshStockList(file, env) ==
    LET str  == IF IsBlank(file) THEN env ELSE file
        list == ParseStockList(str)
    IN  IF list = << >> THEN <<"000001">> ELSE list

\* argparse flags that decide the run mode, and the one that touches Config.
ArgSets ==
    [ serve : BOOLEAN, serve_only : BOOLEAN, market_review : BOOLEAN,
      schedule : BOOLEAN, single_notify : BOOLEAN ]

\* The Config fields main.py reads or writes, as _load_from_env builds them.
LoadedConfigs ==
    { [ stock_list |-> LoadStockList(s), single_stock_notify |-> n,
        schedule_enabled |-> e, webui_enabled |-> w ] :
      s \in {<<"">>, <<"2330.TW", " 2317.TW">>}, n \in BOOLEAN, e \in BOOLEAN,
      w \in BOOLEAN }

\* What a step of the program can meet: it completes, it raises an Exception,
\* or Ctrl+C raises KeyboardInterrupt inside it.
StepOutcomes == {"ok", "Exception", "KeyboardInterrupt"}

NoCli ==
    [ prog |-> "none", at |-> "off", args |-> [ serve |-> FALSE, serve_only |-> FALSE,
      market_review |-> FALSE, schedule |-> FALSE, single_notify |-> FALSE ],
      github |-> FALSE, startServe |-> FALSE,
      config |-> [ stock_list |-> << >>, single_stock_notify |-> FALSE,
                   schedule_enabled |-> FALSE, webui_enabled |-> FALSE ],
      loaded |-> [ stock_list |-> << >>, single_stock_notify |-> FALSE,
                   schedule_enabled |-> FALSE, webui_enabled |-> FALSE ],
      exit |-> -1, interrupted |-> FALSE, failed |-> FALSE, runs |-> 0,
      failures |-> 0, reloads |-> 0, escaped |-> 0 ]

\* The process before main() runs: its flags, its environment and the Config
\* get_config() will hand out.
CliStates ==
    { [ NoCli EXCEPT !.prog = p, !.at = "start", !.args = a, !.github = g,
                     !.config = c, !.loaded = c ] :
      p \in {"main", "webui"}, a \in ArgSets, g \in BOOLEAN, c \in LoadedConfigs }

\* main(): --webui-only maps to --serve-only, --webui and WEBUI_ENABLED to
\* --serve.  The flags of webui are left out: they only alias serve's.
Serve(c) == c.args.serve \/ (c.config.webui_enabled /\ ~c.args.serve_only)

StartServe(c) == (Serve(c) \/ c.args.serve_only) /\ ~c.github

ScheduleMode(c) == c.args.schedule \/ c.config.schedule_enabled

\* main(): where the program goes after startup.
ModeOf(c) ==
    IF c.args.serve_only THEN "serveOnly"
    ELSE IF c.args.market_review THEN "marketReview"
    ELSE IF ScheduleMode(c) THEN "scheduler"
    ELSE "single"

\* main() up to the branch on the run mode.
MainStart ==
    /\ cli.prog = "main" /\ cli.at = "start"
    /\ cli' = [ cli EXCEPT !.at = ModeOf(cli), !.startServe = StartServe(cli) ]
    /\ UNCHANGED << source, fetchers, prio, lastOp, now, cache, cb, pc, loc, nCalls, hist, batch, ts, apiLog, quoteOp, executor, pools, runs, tasks, callers, clock, sendOp, chunkOp, fetchOp, chipCb, chipLog, prefetchOp, dailyOp, gate, sub, fullRun, splitOp, tgOp, sched, chunkSend, bsq >>

\* The process ends with this exit code.
Exited(c, code) == [ c EXCEPT !.at = "exited", !.exit = code ]

\* main()'s handlers around the three run modes: except KeyboardInterrupt,
\* except Exception.
MainHandler(c, raised) ==
    IF raised = "KeyboardInterrupt" THEN Exited([ c EXCEPT !.interrupted = TRUE ], 130)
    ELSE Exited(c, 1)

\* The serve-only loop: it sleeps until Ctrl+C and returns 0.
ServeOnlyInterrupt ==
    /\ cli.at = "serveOnly"
    /\ cli' = Exited([ cli EXCEPT !.interrupted = TRUE ], 0)
    /\ UNCHANGED << source, fetchers, prio, lastOp, now, cache, cb, pc, loc, nCalls, hist, batch, ts, apiLog, quoteOp, executor, pools, runs, tasks, callers, clock, sendOp, chunkOp, fetchOp, chipCb, chipLog, prefetchOp, dailyOp, gate, sub, fullRun, splitOp, tgOp, sched, chunkSend, bsq >>

\* Market review mode: the review runs once.
MarketReviewRun ==
    /\ cli.at = "marketReview"
    /\ \E o \in StepOutcomes :
         cli' = IF o = "ok" THEN Exited(cli, 0)
                ELSE MainHandler([ cli EXCEPT !.failed = (o = "Exception") ], o)
    /\ UNCHANGED << source, fetchers, prio, lastOp, now, cache, cb, pc, loc, nCalls, hist, batch, ts, apiLog, quoteOp, executor, pools, runs, tasks, callers, clock, sendOp, chunkOp, fetchOp, chipCb, chipLog, prefetchOp, dailyOp, gate, sub, fullRun, splitOp, tgOp, sched, chunkSend, bsq >>

\* run_full_analysis without its except clause.
RunFullAnalysisNoExcept(o) == IF o = "ok" THEN "returns" ELSE o

\* run_full_analysis: what leaves it when its body meets o.  except Exception
\* logs and returns; KeyboardInterrupt is no Exception.
RunFullAnalysisResult(o) == IF o = "KeyboardInterrupt" THEN o ELSE "returns"

\* run_full_analysis: --single-notify is written into the Config, the pipeline
\* runs (and may reload the watchlist on the way), the body meets o.
RunFullAnalysis(c, reload, file, env, o) ==
    [ c EXCEPT !.config.single_stock_notify = IF c.args.single_notify THEN TRUE ELSE @,
               !.config.stock_list = IF reload THEN RefreshStockList(file, env) ELSE @,
               !.reloads = IF reload THEN @ + 1 ELSE @,
               !.runs = @ + 1,
               !.failed = (o = "Exception"),
               !.failures = IF o = "Exception" THEN @ + 1 ELSE @ ]

\* The single run of main(), then the loop that keeps the server up.
SingleRun ==
    /\ cli.at = "single"
    /\ \E reload \in BOOLEAN, file \in StockListStrings, env \in StockListStrings,
          o \in StepOutcomes :
         LET c == RunFullAnalysis(cli, reload, file, env, o)
             r == RunFullAnalysisResult(o)
         IN  cli' = IF r # "returns" THEN MainHandler(c, r)
                    ELSE IF c.startServe THEN [ c EXCEPT !.at = "keepRunning" ]
                    ELSE Exited(c, 0)
    /\ UNCHANGED << source, fetchers, prio, lastOp, now, cache, cb, pc, loc, nCalls, hist, batch, ts, apiLog, quoteOp, executor, pools, runs, tasks, callers, clock, sendOp, chunkOp, fetchOp, chipCb, chipLog, prefetchOp, dailyOp, gate, sub, fullRun, splitOp, tgOp, sched, chunkSend, bsq >>

\* The keep-running loop after a single run: Ctrl+C is passed over, main
\* returns 0.
KeepRunningInterrupt ==
    /\ cli.at = "keepRunning"
    /\ cli' = Exited([ cli EXCEPT !.interrupted = TRUE ], 0)
    /\ UNCHANGED << source, fetchers, prio, lastOp, now, cache, cb, pc, loc, nCalls, hist, batch, ts, apiLog, quoteOp, executor, pools, runs, tasks, callers, clock, sendOp, chunkOp, fetchOp, chipCb, chipLog, prefetchOp, dailyOp, gate, sub, fullRun, splitOp, tgOp, sched, chunkSend, bsq >>

\* run_with_schedule after a call of the task: it waits for the next day's
\* run when the task returned, and what the task raised leaves it.
RunWithSchedule(r) == IF r = "returns" THEN "waits" ELSE r

\* The scheduled task of main(): run_with_schedule calls it at once after
\* startup, then at the configured time of each day.
ScheduledTask ==
    /\ cli.at = "scheduler" /\ cli.runs < MaxRuns
    /\ \E reload \in BOOLEAN, file \in StockListStrings, env \in StockListStrings,
          o \in StepOutcomes :
         LET c == RunFullAnalysis(cli, reload, file, env, o)
             r == RunFullAnalysisResult(o)
             e == [ c EXCEPT !.escaped = IF r = "Exception" THEN @ + 1 ELSE @ ]
         IN  cli' = IF RunWithSchedule(r) = "waits" THEN c
                    ELSE MainHandler(e, RunWithSchedule(r))
    /\ UNCHANGED << source, fetchers, prio, lastOp, now, cache, cb, pc, loc, nCalls, hist, batch, ts, apiLog, quoteOp, executor, pools, runs, tasks, callers, clock, sendOp, chunkOp, fetchOp, chipCb, chipLog, prefetchOp, dailyOp, gate, sub, fullRun, splitOp, tgOp, sched, chunkSend, bsq >>

\* Ctrl+C while the scheduler waits for the next run.
SchedulerInterrupt ==
    /\ cli.at = "scheduler"
    /\ cli' = MainHandler(cli, "KeyboardInterrupt")
    /\ UNCHANGED << source, fetchers, prio, lastOp, now, cache, cb, pc, loc, nCalls, hist, batch, ts, apiLog, quoteOp, executor, pools, runs, tasks, callers, clock, sendOp, chunkOp, fetchOp, chipCb, chipLog, prefetchOp, dailyOp, gate, sub, fullRun, splitOp, tgOp, sched, chunkSend, bsq >>

\* webui.py main(): uvicorn serves until it stops; KeyboardInterrupt is passed
\* over and main returns 0, any other exception leaves the program.
WebuiMain ==
    /\ cli.prog = "webui" /\ cli.at = "start"
    /\ \E o \in StepOutcomes :
         cli' = IF o = "Exception" THEN Exited([ cli EXCEPT !.failed = TRUE ], 1)
                ELSE Exited([ cli EXCEPT !.interrupted = (o = "KeyboardInterrupt") ], 0)
    /\ UNCHANGED << source, fetchers, prio, lastOp, now, cache, cb, pc, loc, nCalls, hist, batch, ts, apiLog, quoteOp, executor, pools, runs, tasks, callers, clock, sendOp, chunkOp, fetchOp, chipCb, chipLog, prefetchOp, dailyOp, gate, sub, fullRun, splitOp, tgOp, sched, chunkSend, bsq >>

----------------------------------------------------------------------------
(* BaseFetcher.get_daily_data: one fetcher's Daily series *)

\* The longest raw frame and the latest date an upstream answers with.
MaxRows == 3
MaxDate == 3

\* A row of the raw frame: its date, and whether close and volume hold
\* numbers (pd.to_numeric turns anything else into NaN).
RawRows == [ date : 1..MaxDate, numeric : BOOLEAN ]

\* The frames an upstream can answer with; it owes the caller no order and
\* no uniqueness of dates.
RawFrames == UNION { [ 1..n -> RawRows ] : n \in 0..MaxRows }

\* df.dropna(subset=['close', 'volume'])
DropNa(df) == SelectSeq(df, LAMBDA r : r.numeric)

\* One row put into a frame sorted by date, after the rows of the same date.
RECURSIVE InsertByDate(_, _)
InsertByDate(df, r) ==
    IF df = << >> THEN << r >>
    ELSE IF r.date < Head(df).date THEN << r >> \o df
         ELSE << Head(df) >> \o InsertByDate(Tail(df), r)

\* df.sort_values('date', ascending=True).reset_index(drop=True)
RECURSIVE SortByDate(_)
SortByDate(df) ==
    IF df = << >> THEN << >>
    ELSE InsertByDate(SortByDate(SubSeq(df, 1, Len(df) - 1)), df[Len(df)])

\* BaseFetcher._clean_data: rows without close or volume go, the rest is
\* sorted by date.
CleanData(df) == SortByDate(DropNa(df))

\* BaseFetcher.get_daily_data of one fetcher: an empty raw frame or a raising
\* upstream becomes DataFetchError, any other frame is cleaned and returned.
FetcherGetDailyData(raises, raw) ==
    IF raises \/ raw = << >> THEN [ kind |-> "raise", df |-> << >> ]
    ELSE [ kind |-> "return", df |-> CleanData(raw) ]

NoDailyOp == [ op |-> "none", raw |-> << >>, kind |-> "none", df |-> << >> ]

\* One Daily call of a fetcher.
FetcherDaily ==
    /\ dailyOp.op = "none"
    /\ \E raises \in BOOLEAN, raw \in RawFrames :
         LET r == FetcherGetDailyData(raises, raw)
         IN  dailyOp' = [ op |-> "daily", raw |-> raw, kind |-> r.kind, df |-> r.df ]
    /\ UNCHANGED << source, fetchers, prio, lastOp, now, cache, cb, pc, loc, nCalls, hist, batch, ts, apiLog, quoteOp, executor, pools, runs, tasks, callers, clock, sendOp, chunkOp, fetchOp, chipCb, chipLog, prefetchOp, cli, gate, sub, fullRun, splitOp, tgOp, sched, chunkSend, bsq >>

----------------------------------------------------------------------------
(* _enforce_rate_limit of AkshareFetcher and EfinanceFetcher *)

\* The threads that use one fetcher, the calls a behaviour follows and the
\* seconds it lasts.
GateThreads == 2
MaxGateCalls == 3
MaxGateTime == 9

\* AkshareFetcher's defaults, in seconds.
SleepMin == 2
SleepMax == 5

\* random.uniform(sleep_min, sleep_max), in whole seconds.
Jitters == SleepMin..SleepMax

\* A fresh fetcher: no request yet, every thread outside the fetcher.
GateInit ==
    [ now |-> 0, last |-> -1, calls |-> 0, requests |-> << >>,
      pc |-> [ w \in 1..GateThreads |-> "idle" ],
      wake |-> [ w \in 1..GateThreads |-> 0 ] ]

\* The sleep that fills the interval since the last request up to sleep_min;
\* 0 before the first request and once the interval has passed.
AdditionalSleep(last, t) ==
    IF last # -1 /\ t - last < SleepMin THEN SleepMin - (t - last) ELSE 0

\* _enforce_rate_limit, up to its first sleep: the thread reads
\* _last_request_time and sleeps for what is missing to sleep_min, or goes on
\* to the jitter sleep at once.
EnforceRateLimit(w) ==
    /\ gate.pc[w] = "idle" /\ gate.calls < MaxGateCalls
    /\ LET add == AdditionalSleep(gate.last, gate.now)
       IN  \/ /\ add > 0
              /\ gate' = [ gate EXCEPT !.calls = @ + 1, !.pc[w] = "additional",
                                       !.wake[w] = gate.now + add ]
           \/ /\ add = 0
              /\ \E j \in Jitters :
                   gate' = [ gate EXCEPT !.calls = @ + 1, !.pc[w] = "jitter",
                                         !.wake[w] = gate.now + j ]
    /\ UNCHANGED << source, fetchers, prio, lastOp, now, cache, cb, pc, loc, nCalls, hist, batch, ts, apiLog, quoteOp, executor, pools, runs, tasks, callers, clock, sendOp, chunkOp, fetchOp, chipCb, chipLog, prefetchOp, cli, dailyOp, sub, fullRun, splitOp, tgOp, sched, chunkSend, bsq >>

\* The additional sleep is over: random_sleep begins.
RandomSleep(w) ==
    /\ gate.pc[w] = "additional" /\ gate.now >= gate.wake[w]
    /\ \E j \in Jitters :
         gate' = [ gate EXCEPT !.pc[w] = "jitter", !.wake[w] = gate.now + j ]
    /\ UNCHANGED << source, fetchers, prio, lastOp, now, cache, cb, pc, loc, nCalls, hist, batch, ts, apiLog, quoteOp, executor, pools, runs, tasks, callers, clock, sendOp, chunkOp, fetchOp, chipCb, chipLog, prefetchOp, cli, dailyOp, sub, fullRun, splitOp, tgOp, sched, chunkSend, bsq >>

\* The jitter sleep is over: _last_request_time = time.time().
StampRequestTime(w) ==
    /\ gate.pc[w] = "jitter" /\ gate.now >= gate.wake[w]
    /\ gate' = [ gate EXCEPT !.pc[w] = "stamped", !.last = gate.now ]
    /\ UNCHANGED << source, fetchers, prio, lastOp, now, cache, cb, pc, loc, nCalls, hist, batch, ts, apiLog, quoteOp, executor, pools, runs, tasks, callers, clock, sendOp, chunkOp, fetchOp, chipCb, chipLog, prefetchOp, cli, dailyOp, sub, fullRun, splitOp, tgOp, sched, chunkSend, bsq >>

\* The caller of _enforce_rate_limit makes its upstream request.
UpstreamRequest(w) ==
    /\ gate.pc[w] = "stamped"
    /\ gate' = [ gate EXCEPT !.pc[w] = "idle", !.requests = Append(@, gate.now) ]
    /\ UNCHANGED << source, fetchers, prio, lastOp, now, cache, cb, pc, loc, nCalls, hist, batch, ts, apiLog, quoteOp, executor, pools, runs, tasks, callers, clock, sendOp, chunkOp, fetchOp, chipCb, chipLog, prefetchOp, cli, dailyOp, sub, fullRun, splitOp, tgOp, sched, chunkSend, bsq >>

\* A second passes.
GateTick ==
    /\ gate.now < MaxGateTime
    /\ gate' = [ gate EXCEPT !.now = @ + 1 ]
    /\ UNCHANGED << source, fetchers, prio, lastOp, now, cache, cb, pc, loc, nCalls, hist, batch, ts, apiLog, quoteOp, executor, pools, runs, tasks, callers, clock, sendOp, chunkOp, fetchOp, chipCb, chipLog, prefetchOp, cli, dailyOp, sub, fullRun, splitOp, tgOp, sched, chunkSend, bsq >>

----------------------------------------------------------------------------
(* AkshareFetcher.get_realtime_quote: the breaker keys of its sub-sources *)

\* The Quote calls to the fetcher a behaviour follows.
MaxSubCalls == 4

\* The source argument and the kind of code that picks the path.
SubSources == { "em", "sina", "tencent" }
CodeKinds == { "stock", "etf", "hk" }

\* source_key = f"akshare_{source}": the key get_realtime_quote checks.
CheckedKey(src) ==
    CASE src = "em"      -> "akshare_em"
      [] src = "sina"    -> "akshare_sina"
      [] src = "tencent" -> "akshare_tencent"

\* The source_key of the method that serves the call: the key its successes
\* and failures are recorded under.
RecordedKey(src, kind) ==
    CASE kind = "hk"  -> "akshare_hk"
      [] kind = "etf" -> "akshare_etf"
      [] kind = "stock" /\ src = "em"      -> "akshare_em"
      [] kind = "stock" /\ src = "sina"    -> "akshare_sina"
      [] kind = "stock" /\ src = "tencent" -> "tencent"

SubKeys ==
    { CheckedKey(s) : s \in SubSources }
        \cup { RecordedKey(s, k) : s \in SubSources, k \in CodeKinds }

\* The snapshot cache in front of a path: _realtime_cache for East Money,
\* _etf_realtime_cache for ETFs, none for the others.
CacheOf(src, kind) ==
    CASE kind = "etf" -> "etf"
      [] kind = "stock" /\ src = "em" -> "em"
      [] OTHER -> "none"

SubInit ==
    [ cb |-> [ k \in SubKeys |-> CbInit ],
      cache |-> [ c \in { "em", "etf" } |-> [ filled |-> FALSE, timestamp |-> 0 ] ],
      log |-> << >> ]

\* get_realtime_quote(stock_code, source) for an A-share, ETF or HK code at
\* time t, its upstream request ending well (ok) or not: the state after the
\* call and what the call did.
AkshareQuote(s, src, kind, ok, t) ==
    LET checked  == CheckedKey(src)
        recorded == RecordedKey(src, kind)
        c        == CacheOf(src, kind)
        entry(o, r) == [ src |-> src, kind |-> kind, checked |-> checked,
                         recorded |-> r, time |-> t, outcome |-> o ]
    IN  IF ~IsAvailable(s.cb[checked], t)
        THEN [ s EXCEPT !.log = Append(@, entry("skipped", "none")) ]
        ELSE IF c # "none" /\ s.cache[c].filled /\ t - s.cache[c].timestamp < AkshareTtl
        THEN [ s EXCEPT !.log = Append(@, entry("cached", "none")) ]
        ELSE LET cb2 == [ s.cb EXCEPT ![recorded] =
                            IF ok THEN RecordSuccess(@) ELSE RecordFailure(@, t) ]
                 ca2 == IF c = "none" THEN s.cache
                        ELSE [ s.cache EXCEPT ![c] = [ filled |-> TRUE, timestamp |-> t ] ]
             IN  [ cb |-> cb2, cache |-> ca2,
                   log |-> Append(s.log, entry(IF ok THEN "ok" ELSE "fail", recorded)) ]

\* One Quote call to the fetcher.
AkshareGetRealtimeQuote ==
    /\ Len(sub.log) < MaxSubCalls
    /\ \E src \in SubSources, kind \in CodeKinds, ok \in BOOLEAN :
         sub' = AkshareQuote(sub, src, kind, ok, now)
    /\ UNCHANGED << source, fetchers, prio, lastOp, now, cache, cb, pc, loc, nCalls, hist, batch, ts, apiLog, quoteOp, executor, pools, runs, tasks, callers, clock, sendOp, chunkOp, fetchOp, chipCb, chipLog, prefetchOp, cli, dailyOp, gate, fullRun, splitOp, tgOp, sched, chunkSend, bsq >>

----------------------------------------------------------------------------
(* run_full_analysis, step by step: the per-symbol phase, then the review *)

\* The most symbols of a watchlist in the model, and the ANALYSIS_DELAY a
\* run can be configured with, in seconds.
MaxSymbols == 3
MaxAnalysisDelay == 2

\* What run_full_analysis is called with: the watchlist's size, the Config
\* fields and the flag that decide on the review.
FullRunInputs ==
    [ symbols : 1..MaxSymbols, market_review_enabled : BOOLEAN,
      no_market_review : BOOLEAN, analysis_delay : 0..MaxAnalysisDelay ]

\* config.market_review_enabled and not args.no_market_review
ReviewEnabled(in) == in.market_review_enabled /\ ~in.no_market_review

FullRunStart(in) ==
    [ in |-> in, at |-> "symbols", failed |-> 0, raised |-> "none", slept |-> 0,
      review |-> "none", doc |-> "none" ]

FullRunStates == { FullRunStart(in) : in \in FullRunInputs }

NoFullRun ==
    [ FullRunStart([ symbols |-> 1, market_review_enabled |-> FALSE,
                     no_market_review |-> FALSE, analysis_delay |-> 0 ])
      EXCEPT !.at = "off" ]

\* except Exception of run_full_analysis: the failure is logged and the run
\* is over.
FullRunHandler(r, step) == [ r EXCEPT !.at = "done", !.raised = step ]

\* 1. pipeline.run: the per-symbol phase.  The pipeline turns the failure of
\* a symbol into a failed result; an exception of the phase itself leaves it.
PerSymbolPhase ==
    /\ fullRun.at = "symbols"
    /\ \/ \E bad \in 0..fullRun.in.symbols :
            fullRun' = [ fullRun EXCEPT !.at = "delay", !.failed = bad ]
       \/ fullRun' = FullRunHandler(fullRun, "symbols")
    /\ UNCHANGED << source, fetchers, prio, lastOp, now, cache, cb, pc, loc, nCalls, hist, batch, ts, apiLog, quoteOp, executor, pools, runs, tasks, callers, clock, sendOp, chunkOp, fetchOp, chipCb, chipLog, prefetchOp, cli, dailyOp, gate, sub, splitOp, tgOp, sched, chunkSend, bsq >>

\* The delay between the two phases: slept only when a review follows.
AnalysisDelay ==
    /\ fullRun.at = "delay"
    /\ fullRun' = [ fullRun EXCEPT !.at = "review",
                      !.slept = IF fullRun.in.analysis_delay > 0 /\ ReviewEnabled(fullRun.in)
                                THEN fullRun.in.analysis_delay ELSE 0 ]
    /\ UNCHANGED << source, fetchers, prio, lastOp, now, cache, cb, pc, loc, nCalls, hist, batch, ts, apiLog, quoteOp, executor, pools, runs, tasks, callers, clock, sendOp, chunkOp, fetchOp, chipCb, chipLog, prefetchOp, cli, dailyOp, gate, sub, splitOp, tgOp, sched, chunkSend, bsq >>

\* run_market_review: the report, or None when there is none or when the
\* review failed; its own except clause lets nothing out.
RunMarketReview(o) == IF o = "report" THEN "report" ELSE "None"

\* 2. The market review, when it is enabled.
MarketReviewPhase ==
    /\ fullRun.at = "review"
    /\ \/ /\ ReviewEnabled(fullRun.in)
          /\ \E o \in { "report", "empty", "Exception" } :
               fullRun' = [ fullRun EXCEPT !.at = "doc", !.review = RunMarketReview(o) ]
       \/ /\ ~ReviewEnabled(fullRun.in)
          /\ fullRun' = [ fullRun EXCEPT !.at = "doc" ]
    /\ UNCHANGED << source, fetchers, prio, lastOp, now, cache, cb, pc, loc, nCalls, hist, batch, ts, apiLog, quoteOp, executor, pools, runs, tasks, callers, clock, sendOp, chunkOp, fetchOp, chipCb, chipLog, prefetchOp, cli, dailyOp, gate, sub, splitOp, tgOp, sched, chunkSend, bsq >>

\* The summary and the Feishu document; a failure of the document is logged
\* by its own except clause.
FeishuDocPhase ==
    /\ fullRun.at = "doc"
    /\ \E o \in { "created", "unconfigured", "Exception" } :
         fullRun' = [ fullRun EXCEPT !.at = "done", !.doc = o ]
    /\ UNCHANGED << source, fetchers, prio, lastOp, now, cache, cb, pc, loc, nCalls, hist, batch, ts, apiLog, quoteOp, executor, pools, runs, tasks, callers, clock, sendOp, chunkOp, fetchOp, chipCb, chipLog, prefetchOp, cli, dailyOp, gate, sub, splitOp, tgOp, sched, chunkSend, bsq >>

----------------------------------------------------------------------------
(* The character-limited channels: Discord embeds and Pushover messages *)

\* Most sections of a report and most lines of a section in the model.
MaxSections == 2
MaxLines == 2

\* _split_discord_content's max_length, the separator it joins with, and the
\* limit of an embed description.
DiscordMaxLength == 4000
DiscordRuleLength == 5
DiscordLimit == 4096

\* send_to_pushover's max_length.
PushoverMaxLength == 1024

\* Lengths of the lines of a report, in characters: short, half of a chunk,
\* just inside max_length, between max_length and the limit, beyond the limit.
LineLengths == { 10, 2000, 3990, 4090, 5000 }

\* A section is its lines, a report its sections.
DiscordSections == UNION { [ 1..n -> LineLengths ] : n \in 1..MaxLines }
DiscordReports == UNION { [ 1..n -> DiscordSections ] : n \in 1..MaxSections }

\* len of pieces joined with a separator of sep characters.
JoinedLength(pieces, sep) ==
    IF pieces = << >> THEN 0 ELSE SumSeq(pieces) + (Len(pieces) - 1) * sep

\* The loop over the lines of a section longer than max_length: the chunks
\* it closes and the lines it leaves for the section loop.
RECURSIVE DiscordLines(_, _, _, _, _)
DiscordLines(lines, i, chunks, lineChunk, lineLength) ==
    IF i > Len(lines)
    THEN [ chunks |-> chunks, rest |-> JoinedLength(lineChunk, 1), length |-> lineLength ]
    ELSE IF lineLength + lines[i] + 1 > DiscordMaxLength /\ lineChunk # << >>
         THEN DiscordLines(lines, i + 1, Append(chunks, JoinedLength(lineChunk, 1)),
                           << lines[i] >>, lines[i] + 1)
         ELSE DiscordLines(lines, i + 1, chunks, Append(lineChunk, lines[i]),
                           lineLength + lines[i] + 1)

\* The loop over the sections: the length of every chunk.
RECURSIVE DiscordLoop(_, _, _, _, _)
DiscordLoop(secs, i, chunks, current, currentLength) ==
    IF i > Len(secs)
    THEN IF current # << >>
         THEN Append(chunks, JoinedLength(current, DiscordRuleLength))
         ELSE chunks
    ELSE LET text    == JoinedLength(secs[i], 1)
             flush   == currentLength + text + DiscordRuleLength > DiscordMaxLength
                            /\ current # << >>
             chunks1 == IF flush
                        THEN Append(chunks, JoinedLength(current, DiscordRuleLength))
                        ELSE chunks
             cur1    == IF flush THEN << >> ELSE current
             len1    == IF flush THEN 0 ELSE currentLength
         IN  IF text > DiscordMaxLength
             THEN LET byLine == DiscordLines(secs[i], 1,
                                    IF cur1 # << >>
                                    THEN Append(chunks1, JoinedLength(cur1, DiscordRuleLength))
                                    ELSE chunks1,
                                    << >>, 0)
                  IN  DiscordLoop(secs, i + 1, byLine.chunks, << byLine.rest >>,
                                  byLine.length)
             ELSE DiscordLoop(secs, i + 1, chunks1, Append(cur1, text),
                              len1 + text + DiscordRuleLength)

\* _split_discord_content(content): the length of each embed description.
SplitDiscordContent(secs) ==
    LET content == JoinedLength([ i \in 1..Len(secs) |-> JoinedLength(secs[i], 1) ],
                                DiscordRuleLength)
    IN  IF content <= DiscordMaxLength THEN << content >>
        ELSE DiscordLoop(secs, 1, << >>, << >>, 0)

\* Lengths of the paragraphs of a flattened report.
ParagraphLengths == { 10, 500, 1020, 1500 }
MaxParagraphs == 3
PushoverReports == UNION { [ 1..n -> ParagraphLengths ] : n \in 1..MaxParagraphs }

\* The separator the plain text is cut at: the rule of eight box characters
\* or the blank line.
PushoverSeparators == { 8, 2 }

\* The loop of _send_pushover_chunked over the sections.
RECURSIVE PushoverLoop(_, _, _, _, _, _)
PushoverLoop(secs, sep, i, chunks, current, currentLength) ==
    IF i > Len(secs)
    THEN IF current # << >> THEN Append(chunks, JoinedLength(current, sep)) ELSE chunks
    ELSE LET newLength == IF current # << >> THEN currentLength + sep + secs[i]
                          ELSE secs[i]
         IN  IF newLength > PushoverMaxLength
             THEN PushoverLoop(secs, sep, i + 1,
                               IF current # << >>
                               THEN Append(chunks, JoinedLength(current, sep))
                               ELSE chunks,
                               << secs[i] >>, secs[i])
             ELSE PushoverLoop(secs, sep, i + 1, chunks, Append(current, secs[i]),
                               newLength)

\* send_to_pushover(content): the length of each message.
SendToPushover(secs, sep) ==
    IF JoinedLength(secs, sep) <= PushoverMaxLength
    THEN << JoinedLength(secs, sep) >>
    ELSE PushoverLoop(secs, sep, 1, << >>, << >>, 0)

NoSplitOp == [ channel |-> "none", report |-> << >>, sep |-> 0, parts |-> << >> ]

\* A report goes to Discord.
SendToDiscord ==
    /\ splitOp.channel = "none"
    /\ \E secs \in DiscordReports :
         splitOp' = [ channel |-> "discord", report |-> secs, sep |-> DiscordRuleLength,
                      parts |-> SplitDiscordContent(secs) ]
    /\ UNCHANGED << source, fetchers, prio, lastOp, now, cache, cb, pc, loc, nCalls, hist, batch, ts, apiLog, quoteOp, executor, pools, runs, tasks, callers, clock, sendOp, chunkOp, fetchOp, chipCb, chipLog, prefetchOp, cli, dailyOp, gate, sub, fullRun, tgOp, sched, chunkSend, bsq >>

\* A report goes to Pushover.
SendPushover ==
    /\ splitOp.channel = "none"
    /\ \E secs \in PushoverReports, sep \in PushoverSeparators :
         splitOp' = [ channel |-> "pushover", report |-> secs, sep |-> sep,
                      parts |-> SendToPushover(secs, sep) ]
    /\ UNCHANGED << source, fetchers, prio, lastOp, now, cache, cb, pc, loc, nCalls, hist, batch, ts, apiLog, quoteOp, executor, pools, runs, tasks, callers, clock, sendOp, chunkOp, fetchOp, chipCb, chipLog, prefetchOp, cli, dailyOp, gate, sub, fullRun, tgOp, sched, chunkSend, bsq >>

----------------------------------------------------------------------------
(* NotificationService._send_telegram_message *)

\* The longest message of the model, in tokens.
MaxTokens == 2

\* The pieces of a message the conversion tells apart: a heading mark, a bold
\* span, an opening bracket, an underscore and a plain word.
TgTokens == { "# ", "**b**", "[", "_", "w" }

TgTexts == UNION { [ 1..n -> TgTokens ] : n \in 1..MaxTokens }

\* _convert_to_telegram_markdown: the heading mark at the start of a line is
\* removed, **bold** becomes *bold*, brackets are escaped.
RECURSIVE ConvertToTelegramMarkdown(_, _)
ConvertToTelegramMarkdown(text, i) ==
    IF i > Len(text) THEN << >>
    ELSE LET t == text[i]
             c == CASE t = "# " /\ i = 1 -> << >>
                    [] t = "**b**"       -> << "*b*" >>
                    [] t = "["           -> << "\\[" >>
                    [] OTHER             -> << t >>
         IN  c \o ConvertToTelegramMarkdown(text, i + 1)

\* What a POST to sendMessage can meet: the request raises (status 0), the
\* API accepts (200, ok), or it rejects, with the HTTP status of the error
\* or with 200, and with a description that names a parse error or not.
TgResponses ==
    { [ status |-> 0, ok |-> FALSE, parse |-> FALSE ],
      [ status |-> 200, ok |-> TRUE, parse |-> FALSE ] }
        \cup [ status : { 200, 400 }, ok : { FALSE }, parse : BOOLEAN ]

TgAccepted(r) == r.status = 200 /\ r.ok

\* The branch that posts again: status 200, not ok, a description with
\* 'parse' or 'markdown' in it.
TgRetries(r) == r.status = 200 /\ ~r.ok /\ r.parse

\* _send_telegram_message(text): the posts made and what is returned, r1 and
\* r2 being the answers to the first and to the second post.
SendTelegramMessage(text, r1, r2) ==
    LET first  == [ text |-> ConvertToTelegramMarkdown(text, 1), mode |-> "Markdown",
                    answer |-> r1 ]
        second == [ text |-> text, mode |-> "plain", answer |-> r2 ]
    IN  IF r1.status = 0 THEN [ posts |-> << first >>, result |-> "raise" ]
        ELSE IF TgAccepted(r1) THEN [ posts |-> << first >>, result |-> "True" ]
        ELSE IF TgRetries(r1)
             THEN [ posts |-> << first, second >>,
                    result |-> IF r2.status = 0 THEN "raise"
                               ELSE IF TgAccepted(r2) THEN "True" ELSE "False" ]
             ELSE [ posts |-> << first >>, result |-> "False" ]

NoTgOp == [ op |-> "none", text |-> << >>, posts |-> << >>, result |-> "none" ]

\* One message goes to Telegram.
TelegramMessage ==
    /\ tgOp.op = "none"
    /\ \E text \in TgTexts, r1 \in TgResponses, r2 \in TgResponses :
         LET r == SendTelegramMessage(text, r1, r2)
         IN  tgOp' = [ op |-> "send", text |-> text, posts |-> r.posts, result |-> r.result ]
    /\ UNCHANGED << source, fetchers, prio, lastOp, now, cache, cb, pc, loc, nCalls, hist, batch, ts, apiLog, quoteOp, executor, pools, runs, tasks, callers, clock, sendOp, chunkOp, fetchOp, chipCb, chipLog, prefetchOp, cli, dailyOp, gate, sub, fullRun, splitOp, sched, chunkSend, bsq >>

----------------------------------------------------------------------------
(* Schedule mode of main(): the first run and the daily runs *)

\* The day in slots of the clock, and the days a behaviour follows.
DaySlots == 3
MaxDays == 3

\* Schedule mode at startup: SCHEDULE_TIME, the time of day the process
\* starts at, and whether the operator's configuration asks for a run at
\* startup.
SchedStates ==
    { [ at |-> "start", schedule_time |-> s, clock |-> c, wantImmediate |-> w,
        run_immediately |-> FALSE, runs |-> << >> ] :
      s \in 0..(DaySlots - 1), c \in 0..(DaySlots - 1), w \in BOOLEAN }

NoSched ==
    [ at |-> "off", schedule_time |-> 0, clock |-> 0, wantImmediate |-> FALSE,
      run_immediately |-> FALSE, runs |-> << >> ]

\* The run_immediately argument main() passes to run_with_schedule.
RunImmediately(s) == TRUE

\* main(): run_with_schedule(task, schedule_time, run_immediately); the
\* scheduler runs the task at once when told so.
SchedulerStart ==
    /\ sched.at = "start"
    /\ LET imm == RunImmediately(sched)
       IN  sched' = [ sched EXCEPT !.at = "waiting", !.run_immediately = imm,
                        !.runs = IF imm
                                 THEN Append(@, [ time |-> sched.clock, kind |-> "immediate" ])
                                 ELSE @ ]
    /\ UNCHANGED << source, fetchers, prio, lastOp, now, cache, cb, pc, loc, nCalls, hist, batch, ts, apiLog, quoteOp, executor, pools, runs, tasks, callers, clock, sendOp, chunkOp, fetchOp, chipCb, chipLog, prefetchOp, cli, dailyOp, gate, sub, fullRun, splitOp, tgOp, chunkSend, bsq >>

\* The clock reaches the next slot; at the scheduled time of day the
\* scheduler runs the task.
SchedulerTick ==
    /\ sched.at = "waiting" /\ sched.clock + 1 < DaySlots * MaxDays
    /\ LET t == sched.clock + 1
       IN  sched' = [ sched EXCEPT !.clock = t,
                        !.runs = IF t % DaySlots = sched.schedule_time
                                 THEN Append(@, [ time |-> t, kind |-> "scheduled" ])
                                 ELSE @ ]
    /\ UNCHANGED << source, fetchers, prio, lastOp, now, cache, cb, pc, loc, nCalls, hist, batch, ts, apiLog, quoteOp, executor, pools, runs, tasks, callers, clock, sendOp, chunkOp, fetchOp, chipCb, chipLog, prefetchOp, cli, dailyOp, gate, sub, fullRun, splitOp, tgOp, chunkSend, bsq >>

----------------------------------------------------------------------------
(* The chunked senders and their result: _send_wechat_chunked,              *)
(* _send_feishu_chunked, _send_telegram_chunked, _send_dingtalk_chunked     *)

\* Most chunks of one chunked send.
MaxSentChunks == 3

\* How a channel answers the post of one chunk: it accepts it (HTTP 200, no
\* error in the body), rejects it with an error code in the body of an HTTP
\* 200 answer, rejects it with an HTTP error status, or the request raises.
ChunkReplies == { "ok", "error_body", "http_error", "raise" }

ChunkedChannels == { "wechat", "feishu", "telegram", "dingtalk" }

\* What the sender of one message makes of the reply: _send_wechat_message,
\* _send_feishu_message and _send_telegram_message read the body of an HTTP
\* 200 answer, _post_custom_webhook (DingTalk) looks at the status only.
SingleSendResult(channel, reply) ==
    CASE reply = "raise" -> "raise"
      [] reply = "ok" -> "true"
      [] reply = "http_error" -> "false"
      [] OTHER -> IF channel = "dingtalk" THEN "true" ELSE "false"

\* The loops of _send_wechat_chunked and _send_feishu_chunked: an exception
\* of a chunk is caught and logged, the chunk is not counted;
\* return success_count == total_chunks.
CountedLoop(channel, replies) ==
    [ ret |-> Cardinality({ i \in 1..Len(replies) :
                              SingleSendResult(channel, replies[i]) = "true" }) = Len(replies),
      raised |-> FALSE, posted |-> Len(replies) ]

\* The loops of _send_telegram_chunked (all_success) and
\* _send_dingtalk_chunked (ok == total): no try around the post, an exception
\* leaves the function at the chunk that raised.
UncaughtLoop(channel, replies) ==
    IF \E i \in 1..Len(replies) : SingleSendResult(channel, replies[i]) = "raise"
    THEN [ ret |-> FALSE, raised |-> TRUE,
           posted |-> CHOOSE i \in 1..Len(replies) :
                        /\ SingleSendResult(channel, replies[i]) = "raise"
                        /\ \A j \in 1..(i - 1) : SingleSendResult(channel, replies[j]) # "raise" ]
    ELSE [ ret |-> \A i \in 1..Len(replies) : SingleSendResult(channel, replies[i]) = "true",
           raised |-> FALSE, posted |-> Len(replies) ]

\* _send_dingtalk_chunked: no chunk at all is a failure.
SendDingtalkChunkedResult(replies) ==
    IF replies = << >>
    THEN [ ret |-> FALSE, raised |-> FALSE, posted |-> 0 ]
    ELSE UncaughtLoop("dingtalk", replies)

ChunkedSendResult(channel, replies) ==
    CASE channel \in { "wechat", "feishu" } -> CountedLoop(channel, replies)
      [] channel = "telegram" -> UncaughtLoop(channel, replies)
      [] OTHER -> SendDingtalkChunkedResult(replies)

NoChunkedSend ==
    [ op |-> "none", channel |-> "none", replies |-> << >>,
      ret |-> FALSE, raised |-> FALSE, posted |-> 0 ]

\* One chunked send of a message on a channel.
ChunkedSend ==
    /\ chunkSend.op = "none"
    /\ \E channel \in ChunkedChannels :
       \E replies \in UNION { [ 1..n -> ChunkReplies ] : n \in 0..MaxSentChunks } :
         /\ channel # "dingtalk" => replies # << >>
         /\ LET r == ChunkedSendResult(channel, replies)
            IN  chunkSend' = [ op |-> "sent", channel |-> channel, replies |-> replies,
                               ret |-> r.ret, raised |-> r.raised, posted |-> r.posted ]
    /\ UNCHANGED << source, fetchers, prio, lastOp, now, cache, cb, pc, loc, nCalls, hist, batch, ts, apiLog, quoteOp, executor, pools, runs, tasks, callers, clock, sendOp, chunkOp, fetchOp, chipCb, chipLog, prefetchOp, cli, dailyOp, gate, sub, fullRun, splitOp, tgOp, sched, bsq >>

----------------------------------------------------------------------------
(* Baostock operations of several threads: _baostock_session around the    *)
(* queries of _fetch_raw_data and get_stock_list                           *)

\* The threads that use the Baostock fetcher, and the operations they start.
NumBsThreads == 2
BsThreads == 1..NumBsThreads
MaxBsOps == 3

BsOps == { "fetch_raw_data", "get_stock_list" }

\* bs.login(), the queries and bs.logout() take no session handle: the login
\* state belongs to the baostock module, one for the process.
BsInit ==
    [ live |-> FALSE, started |-> 0,
      pc |-> [ t \in BsThreads |-> "idle" ],
      op |-> [ t \in BsThreads |-> "none" ],
      queries |-> {} ]

\* with self._baostock_session() as bs: login_result = bs.login(); a login
\* that is refused raises and goes to the finally clause.
BsLogin(t) ==
    /\ bsq.pc[t] = "idle" /\ bsq.started < MaxBsOps
    /\ \E o \in BsOps, ok \in BOOLEAN :
         bsq' = [ bsq EXCEPT !.started = @ + 1, !.op[t] = o,
                             !.live = IF ok THEN TRUE ELSE @,
                             !.pc[t] = IF ok THEN "session" ELSE "finally" ]
    /\ UNCHANGED << source, fetchers, prio, lastOp, now, cache, cb, pc, loc, nCalls, hist, batch, ts, apiLog, quoteOp, executor, pools, runs, tasks, callers, clock, sendOp, chunkOp, fetchOp, chipCb, chipLog, prefetchOp, cli, dailyOp, gate, sub, fullRun, splitOp, tgOp, sched, chunkSend >>

\* rs = bs.query_history_k_data_plus(...) / bs.query_stock_basic(): the query
\* runs on the module's session as it is at that moment; its result, an
\* error or an exception all lead to the finally clause.
BsQuery(t) ==
    /\ bsq.pc[t] = "session"
    /\ bsq' = [ bsq EXCEPT !.queries = @ \cup { [ op |-> bsq.op[t], live |-> bsq.live ] },
                           !.pc[t] = "finally" ]
    /\ UNCHANGED << source, fetchers, prio, lastOp, now, cache, cb, pc, loc, nCalls, hist, batch, ts, apiLog, quoteOp, executor, pools, runs, tasks, callers, clock, sendOp, chunkOp, fetchOp, chipCb, chipLog, prefetchOp, cli, dailyOp, gate, sub, fullRun, splitOp, tgOp, sched, chunkSend >>

\* finally: bs.logout()
BsLogout(t) ==
    /\ bsq.pc[t] = "finally"
    /\ bsq' = [ bsq EXCEPT !.live = FALSE, !.pc[t] = "idle", !.op[t] = "none" ]
    /\ UNCHANGED << source, fetchers, prio, lastOp, now, cache, cb, pc, loc, nCalls, hist, batch, ts, apiLog, quoteOp, executor, pools, runs, tasks, callers, clock, sendOp, chunkOp, fetchOp, chipCb, chipLog, prefetchOp, cli, dailyOp, gate, sub, fullRun, splitOp, tgOp, sched, chunkSend >>

----------------------------------------------------------------------------
(* Initial states *)

\* The parts a specification leaves alone stay as construction left them.
InitRest ==
    /\ quoteOp = NoQuoteOp
    /\ InitService
    /\ sendOp = NoSendOp
    /\ chunkOp = NoChunkOp
    /\ fetchOp = NoFetchOp
    /\ InitChips
    /\ prefetchOp = NoPrefetchOp
    /\ cli = NoCli
    /\ dailyOp = NoDailyOp
    /\ gate = GateInit
    /\ sub = SubInit
    /\ fullRun = NoFullRun
    /\ splitOp = NoSplitOp
    /\ tgOp = NoTgOp
    /\ sched = NoSched
    /\ chunkSend = NoChunkedSend
    /\ bsq = BsInit

InitMgr ==
    /\ prio \in PriorityChoices
    /\ fetchers = InitDefaultFetchers(prio)
    /\ lastOp = NoOp

InitQuote ==
    /\ now = StartTime
    /\ cache = [ k \in Keys |-> CacheInit ]
    /\ cb = [ k \in Keys |-> CbInit ]
    /\ pc = [ w \in Workers |-> "idle" ]
    /\ loc = [ w \in Workers |-> IdleLoc ]
    /\ nCalls = 0
    /\ hist = [ k \in Keys |-> HistInit ]

InitRate ==
    /\ ts = TsInit(DefaultRateLimit)
    /\ apiLog = << >>

InitMgrDefault ==
    /\ prio = DefaultPriorities
    /\ fetchers = InitDefaultFetchers(prio)
    /\ lastOp = NoOp

NextDaily ==
    \/ GetDailyData
    \/ GetMainIndices
    \/ GetMarketStats
    \/ GetSectorRankings

InitDaily ==
    InitMgr /\ InitQuote /\ InitRate /\ batch = BatchOff /\ source = "efinance" /\ InitRest

SpecDaily == InitDaily /\ [][NextDaily]_vars

NextQuote ==
    \/ \E w \in 1..NumThreads :
         \/ AkGetRealtimeQuote(w)
         \/ AkUpstreamReturns(w)
         \/ AkLookup(w)
         \/ EfGetRealtimeQuote(w)
         \/ EfUpstreamReturns(w)
         \/ EfLookup(w)
         \/ EfGetMarketStats(w)
         \/ StatsUpstreamReturns(w)
         \/ StatsFinish(w)
         \/ IssueUpstream(w)
         \/ StoreData(w)
         \/ StoreTimestamp(w)
    \/ Tick

\* The two fetchers share nothing: each has its own module-level cache and its
\* own breaker key.  A run makes its calls to one of them.
InitQuoteSpec ==
    /\ InitMgrDefault /\ InitQuote /\ InitRate /\ batch = BatchOff /\ InitRest
    /\ source \in Keys

SpecQuote == InitQuoteSpec /\ [][NextQuote]_vars

\* A fresh process analyses a batch of four or of five symbols with efinance
\* as the quote source.
InitBatch ==
    /\ InitMgrDefault /\ InitQuote /\ InitRate /\ InitRest
    /\ source = "efinance"
    /\ \E n \in { PrefetchMinCodes - 1, PrefetchMinCodes } :
         batch = [ phase |-> "prefetch", codes |-> n, queue |-> n,
                   fetches |-> 0, hits |-> 0 ]

NextBatch ==
    \/ PrefetchRealtimeQuotes
    \/ PrefetchReturns
    \/ \E w \in Workers :
         \/ BatchTake(w)
         \/ IssueUpstream(w)
         \/ EfUpstreamReturns(w)
         \/ StoreData(w)
         \/ StoreTimestamp(w)
         \/ EfLookup(w)
    \/ BatchDone

SpecBatch == InitBatch /\ [][NextBatch]_vars

\* A fetcher constructed with a small rate_limit_per_minute.
InitRateSpec ==
    /\ InitMgrDefault /\ InitQuote /\ batch = BatchOff /\ source = "efinance" /\ InitRest
    /\ ts \in { TsInit(limit) : limit \in 2..MaxRateLimit }
    /\ apiLog = << >>

NextRate ==
    \/ TsFetchRawData
    \/ TsGetRealtimeQuote
    \/ TsGetMainIndices
    \/ TsGetMarketStats
    \/ RateTick

SpecRate == InitRateSpec /\ [][NextRate]_vars

\* One Quote request to a manager built with the default fetchers.
InitRoute ==
    /\ InitMgrDefault /\ InitQuote /\ InitRate /\ batch = BatchOff /\ source = "efinance"
    /\ quoteOp = NoQuoteOp
    /\ InitService
    /\ sendOp = NoSendOp
    /\ chunkOp = NoChunkOp
    /\ fetchOp = NoFetchOp
    /\ InitChips
    /\ prefetchOp = NoPrefetchOp
    /\ cli = NoCli
    /\ dailyOp = NoDailyOp
    /\ gate = GateInit
    /\ sub = SubInit
    /\ fullRun = NoFullRun
    /\ splitOp = NoSplitOp
    /\ tgOp = NoTgOp
    /\ sched = NoSched
    /\ chunkSend = NoChunkedSend
    /\ bsq = BsInit

NextRoute == GetRealtimeQuote

SpecRoute == InitRoute /\ [][NextRoute]_vars

\* A fresh TaskService and the threads that submit to it.
InitSvc ==
    /\ InitMgrDefault /\ InitQuote /\ InitRate /\ batch = BatchOff /\ source = "efinance"
    /\ quoteOp = NoQuoteOp
    /\ InitService
    /\ sendOp = NoSendOp
    /\ chunkOp = NoChunkOp
    /\ fetchOp = NoFetchOp
    /\ InitChips
    /\ prefetchOp = NoPrefetchOp
    /\ cli = NoCli
    /\ dailyOp = NoDailyOp
    /\ gate = GateInit
    /\ sub = SubInit
    /\ fullRun = NoFullRun
    /\ splitOp = NoSplitOp
    /\ tgOp = NoTgOp
    /\ sched = NoSched
    /\ chunkSend = NoChunkedSend
    /\ bsq = BsInit

CallerSteps ==
    \E c \in Callers :
        \/ SubmitAnalysis(c)
        \/ ExecutorGet(c)
        \/ ExecutorCreate(c)
        \/ ExecutorReturn(c)
        \/ PoolSubmit(c)
        \/ SubmitReturn(c)

WorkerSteps ==
    \E r \in 1..MaxSubmits :
        \/ RunStart(r)
        \/ LedgerRunning(r)
        \/ PipelineReturns(r)

NextSvc ==
    \/ CallerSteps
    \/ WorkerSteps

SpecSvc == InitSvc /\ [][NextSvc]_vars

\* One send of a NotificationService.
InitNotify ==
    /\ InitMgrDefault /\ InitQuote /\ InitRate /\ batch = BatchOff /\ source = "efinance"
    /\ quoteOp = NoQuoteOp
    /\ InitService
    /\ sendOp = NoSendOp
    /\ chunkOp = NoChunkOp
    /\ fetchOp = NoFetchOp
    /\ InitChips
    /\ prefetchOp = NoPrefetchOp
    /\ cli = NoCli
    /\ dailyOp = NoDailyOp
    /\ gate = GateInit
    /\ sub = SubInit
    /\ fullRun = NoFullRun
    /\ splitOp = NoSplitOp
    /\ tgOp = NoTgOp
    /\ sched = NoSched
    /\ chunkSend = NoChunkedSend
    /\ bsq = BsInit

NextNotify == Send

SpecNotify == InitNotify /\ [][NextNotify]_vars

\* One long message sent in chunks.
InitChunk ==
    /\ InitMgrDefault /\ InitQuote /\ InitRate /\ batch = BatchOff /\ source = "efinance"
    /\ quoteOp = NoQuoteOp
    /\ InitService
    /\ sendOp = NoSendOp
    /\ chunkOp = NoChunkOp
    /\ fetchOp = NoFetchOp
    /\ InitChips
    /\ prefetchOp = NoPrefetchOp
    /\ cli = NoCli
    /\ dailyOp = NoDailyOp
    /\ gate = GateInit
    /\ sub = SubInit
    /\ fullRun = NoFullRun
    /\ splitOp = NoSplitOp
    /\ tgOp = NoTgOp
    /\ sched = NoSched
    /\ chunkSend = NoChunkedSend
    /\ bsq = BsInit

NextChunk ==
    \/ SendChunked
    \/ SendDingtalkChunked
    \/ SendTelegramChunked
    \/ SendFeishuStreamChunked

SpecChunk == InitChunk /\ [][NextChunk]_vars

\* One fetcher operation from its call to its return.
InitFetch ==
    /\ InitMgrDefault /\ InitQuote /\ InitRate /\ batch = BatchOff /\ source = "efinance"
    /\ quoteOp = NoQuoteOp
    /\ InitService
    /\ sendOp = NoSendOp
    /\ chunkOp = NoChunkOp
    /\ fetchOp = NoFetchOp
    /\ InitChips
    /\ prefetchOp = NoPrefetchOp
    /\ cli = NoCli
    /\ dailyOp = NoDailyOp
    /\ gate = GateInit
    /\ sub = SubInit
    /\ fullRun = NoFullRun
    /\ splitOp = NoSplitOp
    /\ tgOp = NoTgOp
    /\ sched = NoSched
    /\ chunkSend = NoChunkedSend
    /\ bsq = BsInit

NextFetch ==
    \/ FetchBegin
    \/ BaostockLogin
    \/ BaostockQuery
    \/ BaostockLogout
    \/ UpstreamCall
    \/ AkshareCall
    \/ RetryStep
    \/ NameReturn

SpecFetch == InitFetch /\ [][NextFetch]_vars

\* Chips requests to the manager, one after the other, while time passes.
InitChipSpec ==
    /\ InitMgrDefault /\ InitQuote /\ InitRate /\ batch = BatchOff /\ source = "efinance"
    /\ quoteOp = NoQuoteOp
    /\ InitService
    /\ sendOp = NoSendOp
    /\ chunkOp = NoChunkOp
    /\ fetchOp = NoFetchOp
    /\ InitChips
    /\ prefetchOp = NoPrefetchOp
    /\ cli = NoCli
    /\ dailyOp = NoDailyOp
    /\ gate = GateInit
    /\ sub = SubInit
    /\ fullRun = NoFullRun
    /\ splitOp = NoSplitOp
    /\ tgOp = NoTgOp
    /\ sched = NoSched
    /\ chunkSend = NoChunkedSend
    /\ bsq = BsInit

NextChips ==
    \/ GetChipDistribution
    \/ Tick

SpecChips == InitChipSpec /\ [][NextChips]_vars

\* One prefetch of the manager.
InitPrefetch ==
    /\ InitMgrDefault /\ InitQuote /\ InitRate /\ batch = BatchOff /\ source = "efinance"
    /\ quoteOp = NoQuoteOp
    /\ InitService
    /\ sendOp = NoSendOp
    /\ chunkOp = NoChunkOp
    /\ fetchOp = NoFetchOp
    /\ InitChips
    /\ prefetchOp = NoPrefetchOp
    /\ cli = NoCli
    /\ dailyOp = NoDailyOp
    /\ gate = GateInit
    /\ sub = SubInit
    /\ fullRun = NoFullRun
    /\ splitOp = NoSplitOp
    /\ tgOp = NoTgOp
    /\ sched = NoSched
    /\ chunkSend = NoChunkedSend
    /\ bsq = BsInit

NextPrefetch == Prefetch

SpecPrefetch == InitPrefetch /\ [][NextPrefetch]_vars

\* One run of a command line program, from its start to its exit code.
InitCli ==
    /\ InitMgrDefault /\ InitQuote /\ InitRate /\ batch = BatchOff /\ source = "efinance"
    /\ quoteOp = NoQuoteOp
    /\ InitService
    /\ sendOp = NoSendOp
    /\ chunkOp = NoChunkOp
    /\ fetchOp = NoFetchOp
    /\ InitChips
    /\ prefetchOp = NoPrefetchOp
    /\ cli \in CliStates
    /\ dailyOp = NoDailyOp
    /\ gate = GateInit
    /\ sub = SubInit
    /\ fullRun = NoFullRun
    /\ splitOp = NoSplitOp
    /\ tgOp = NoTgOp
    /\ sched = NoSched
    /\ chunkSend = NoChunkedSend
    /\ bsq = BsInit

NextCli ==
    \/ MainStart
    \/ ServeOnlyInterrupt
    \/ MarketReviewRun
    \/ SingleRun
    \/ KeepRunningInterrupt
    \/ ScheduledTask
    \/ SchedulerInterrupt
    \/ WebuiMain

SpecCli == InitCli /\ [][NextCli]_vars

\* One Daily call of one fetcher.
InitFetcherDaily ==
    /\ InitMgrDefault /\ InitQuote /\ InitRate /\ batch = BatchOff /\ source = "efinance"
    /\ quoteOp = NoQuoteOp
    /\ InitService
    /\ sendOp = NoSendOp
    /\ chunkOp = NoChunkOp
    /\ fetchOp = NoFetchOp
    /\ InitChips
    /\ prefetchOp = NoPrefetchOp
    /\ cli = NoCli
    /\ dailyOp = NoDailyOp
    /\ gate = GateInit
    /\ sub = SubInit
    /\ fullRun = NoFullRun
    /\ splitOp = NoSplitOp
    /\ tgOp = NoTgOp
    /\ sched = NoSched
    /\ chunkSend = NoChunkedSend
    /\ bsq = BsInit

NextFetcherDaily == FetcherDaily

SpecFetcherDaily == InitFetcherDaily /\ [][NextFetcherDaily]_vars

\* Threads that call one fetcher's upstream through _enforce_rate_limit.
InitGate ==
    /\ InitMgrDefault /\ InitQuote /\ InitRate /\ batch = BatchOff /\ source = "efinance"
    /\ quoteOp = NoQuoteOp
    /\ InitService
    /\ sendOp = NoSendOp
    /\ chunkOp = NoChunkOp
    /\ fetchOp = NoFetchOp
    /\ InitChips
    /\ prefetchOp = NoPrefetchOp
    /\ cli = NoCli
    /\ dailyOp = NoDailyOp
    /\ gate = GateInit
    /\ sub = SubInit
    /\ fullRun = NoFullRun
    /\ splitOp = NoSplitOp
    /\ tgOp = NoTgOp
    /\ sched = NoSched
    /\ chunkSend = NoChunkedSend
    /\ bsq = BsInit

NextGate ==
    \/ \E w \in 1..GateThreads :
         \/ EnforceRateLimit(w)
         \/ RandomSleep(w)
         \/ StampRequestTime(w)
         \/ UpstreamRequest(w)
    \/ GateTick

SpecGate == InitGate /\ [][NextGate]_vars

\* Quote calls to the AkshareFetcher, one after the other, while time passes.
InitSub ==
    /\ InitMgrDefault /\ InitQuote /\ InitRate /\ batch = BatchOff /\ source = "efinance"
    /\ quoteOp = NoQuoteOp
    /\ InitService
    /\ sendOp = NoSendOp
    /\ chunkOp = NoChunkOp
    /\ fetchOp = NoFetchOp
    /\ InitChips
    /\ prefetchOp = NoPrefetchOp
    /\ cli = NoCli
    /\ dailyOp = NoDailyOp
    /\ gate = GateInit
    /\ sub = SubInit
    /\ fullRun = NoFullRun
    /\ splitOp = NoSplitOp
    /\ tgOp = NoTgOp
    /\ sched = NoSched
    /\ chunkSend = NoChunkedSend
    /\ bsq = BsInit

NextSub ==
    \/ AkshareGetRealtimeQuote
    \/ Tick

SpecSub == InitSub /\ [][NextSub]_vars

\* One run of run_full_analysis.
InitFullRun ==
    /\ InitMgrDefault /\ InitQuote /\ InitRate /\ batch = BatchOff /\ source = "efinance"
    /\ quoteOp = NoQuoteOp
    /\ InitService
    /\ sendOp = NoSendOp
    /\ chunkOp = NoChunkOp
    /\ fetchOp = NoFetchOp
    /\ InitChips
    /\ prefetchOp = NoPrefetchOp
    /\ cli = NoCli
    /\ dailyOp = NoDailyOp
    /\ gate = GateInit
    /\ sub = SubInit
    /\ fullRun \in FullRunStates
    /\ splitOp = NoSplitOp
    /\ tgOp = NoTgOp
    /\ sched = NoSched
    /\ chunkSend = NoChunkedSend
    /\ bsq = BsInit

NextFullRun ==
    \/ PerSymbolPhase
    \/ AnalysisDelay
    \/ MarketReviewPhase
    \/ FeishuDocPhase

SpecFullRun == InitFullRun /\ [][NextFullRun]_vars

\* One report sent to a character-limited channel.
InitSplit ==
    /\ InitMgrDefault /\ InitQuote /\ InitRate /\ batch = BatchOff /\ source = "efinance"
    /\ quoteOp = NoQuoteOp
    /\ InitService
    /\ sendOp = NoSendOp
    /\ chunkOp = NoChunkOp
    /\ fetchOp = NoFetchOp
    /\ InitChips
    /\ prefetchOp = NoPrefetchOp
    /\ cli = NoCli
    /\ dailyOp = NoDailyOp
    /\ gate = GateInit
    /\ sub = SubInit
    /\ fullRun = NoFullRun
    /\ splitOp = NoSplitOp
    /\ tgOp = NoTgOp
    /\ sched = NoSched
    /\ chunkSend = NoChunkedSend
    /\ bsq = BsInit

NextSplit ==
    \/ SendToDiscord
    \/ SendPushover

SpecSplit == InitSplit /\ [][NextSplit]_vars

\* One message sent to Telegram.
InitTelegram ==
    /\ InitMgrDefault /\ InitQuote /\ InitRate /\ batch = BatchOff /\ source = "efinance"
    /\ quoteOp = NoQuoteOp
    /\ InitService
    /\ sendOp = NoSendOp
    /\ chunkOp = NoChunkOp
    /\ fetchOp = NoFetchOp
    /\ InitChips
    /\ prefetchOp = NoPrefetchOp
    /\ cli = NoCli
    /\ dailyOp = NoDailyOp
    /\ gate = GateInit
    /\ sub = SubInit
    /\ fullRun = NoFullRun
    /\ splitOp = NoSplitOp
    /\ tgOp = NoTgOp
    /\ sched = NoSched
    /\ chunkSend = NoChunkedSend
    /\ bsq = BsInit

NextTelegram == TelegramMessage

SpecTelegram == InitTelegram /\ [][NextTelegram]_vars

\* A process in schedule mode, from its start over the following days.
InitSched ==
    /\ InitMgrDefault /\ InitQuote /\ InitRate /\ batch = BatchOff /\ source = "efinance"
    /\ quoteOp = NoQuoteOp
    /\ InitService
    /\ sendOp = NoSendOp
    /\ chunkOp = NoChunkOp
    /\ fetchOp = NoFetchOp
    /\ InitChips
    /\ prefetchOp = NoPrefetchOp
    /\ cli = NoCli
    /\ dailyOp = NoDailyOp
    /\ gate = GateInit
    /\ sub = SubInit
    /\ fullRun = NoFullRun
    /\ splitOp = NoSplitOp
    /\ tgOp = NoTgOp
    /\ sched \in SchedStates
    /\ chunkSend = NoChunkedSend
    /\ bsq = BsInit

NextSched ==
    \/ SchedulerStart
    \/ SchedulerTick

SpecSched == InitSched /\ [][NextSched]_vars

\* One message sent in chunks on one channel.
InitChunkedSend ==
    /\ InitMgrDefault /\ InitQuote /\ InitRate /\ batch = BatchOff /\ source = "efinance"
    /\ quoteOp = NoQuoteOp
    /\ InitService
    /\ sendOp = NoSendOp
    /\ chunkOp = NoChunkOp
    /\ fetchOp = NoFetchOp
    /\ InitChips
    /\ prefetchOp = NoPrefetchOp
    /\ cli = NoCli
    /\ dailyOp = NoDailyOp
    /\ gate = GateInit
    /\ sub = SubInit
    /\ fullRun = NoFullRun
    /\ splitOp = NoSplitOp
    /\ tgOp = NoTgOp
    /\ sched = NoSched
    /\ chunkSend = NoChunkedSend
    /\ bsq = BsInit

NextChunkedSend == ChunkedSend

SpecChunkedSend == InitChunkedSend /\ [][NextChunkedSend]_vars

\* Threads running Baostock operations side by side.
InitBsq ==
    /\ InitMgrDefault /\ InitQuote /\ InitRate /\ batch = BatchOff /\ source = "efinance"
    /\ quoteOp = NoQuoteOp
    /\ InitService
    /\ sendOp = NoSendOp
    /\ chunkOp = NoChunkOp
    /\ fetchOp = NoFetchOp
    /\ InitChips
    /\ prefetchOp = NoPrefetchOp
    /\ cli = NoCli
    /\ dailyOp = NoDailyOp
    /\ gate = GateInit
    /\ sub = SubInit
    /\ fullRun = NoFullRun
    /\ splitOp = NoSplitOp
    /\ tgOp = NoTgOp
    /\ sched = NoSched
    /\ chunkSend = NoChunkedSend
    /\ bsq = BsInit

NextBsq ==
    \E t \in BsThreads :
        \/ BsLogin(t)
        \/ BsQuery(t)
        \/ BsLogout(t)

SpecBsq == InitBsq /\ [][NextBsq]_vars

\* The worker threads of the pools keep running: a work item that can be taken
\* or carried on is, in time.
SpecSvcLive == SpecSvc /\ WF_vars(WorkerSteps)

----------------------------------------------------------------------------
(* Properties of the manager (SpecDaily) *)

\* The fetchers called by the last operation are the first ones of the list.
CalledIsPrefix ==
    /\ Len(lastOp.called) <= Len(fetchers)
    /\ \A i \in 1..Len(lastOp.called) : lastOp.called[i] = fetchers[i]

\* self._fetchers is in ascending priority order.
FetchersAscending ==
    \A i, j \in 1..Len(fetchers) : i < j => prio[fetchers[i]] <= prio[fetchers[j]]

NoneSucceeded == \A f \in FetcherNames : lastOp.resp[f] \notin { "ok", "data" }

RaisedBy(f) == lastOp.resp[f] = "raise"

\* C1: Daily tries the fetchers in ascending priority order and returns the
\* first result that is neither empty nor an error, with that fetcher's name;
\* the fetcher that succeeded is the last one called, so no fetcher of lower
\* preference is called after the success.
C1_DailyFirstSuccess ==
    lastOp.op = "daily" =>
        /\ FetchersAscending
        /\ CalledIsPrefix
        /\ (\E f \in FetcherNames : lastOp.resp[f] = "ok") => lastOp.kind = "return"
        /\ lastOp.kind = "return" =>
             LET n == Len(lastOp.called)
             IN  /\ n >= 1
                 /\ lastOp.called[n] = lastOp.name
                 /\ lastOp.resp[lastOp.name] = "ok"
                 /\ \A i \in 1..(n - 1) : lastOp.resp[lastOp.called[i]] # "ok"

\* A Daily request answered by the third fetcher or a later one, under
\* priorities other than the defaults, while a fetcher further down the list
\* would have answered too.
C1_Witness ==
    /\ lastOp.op = "daily" /\ lastOp.kind = "return"
    /\ Len(lastOp.called) >= 3
    /\ fetchers[1] # "EfinanceFetcher"
    /\ \E f \in FetcherNames \ Range(lastOp.called) : lastOp.resp[f] = "ok"

----------------------------------------------------------------------------
(* Properties of the snapshot paths (SpecQuote) *)

\* A call begins in this step.
CallBegins == nCalls' = nCalls + 1

\* C3: while three or more consecutive failures are recorded on akshare_em and
\* the last of them is less than cooldown seconds old, a Quote for that source
\* returns None at the availability test: no thread goes on to the cache or to
\* an upstream request.
C3_OpenRefusesQuote ==
    [][ (source = "akshare_em" /\ CallBegins /\ Blocked("akshare_em"))
          => (pc' = pc /\ loc' = loc /\ hist'["akshare_em"].went = "refused") ]_vars

\* akshare_em has three failures on record, the cooldown is running, and the
\* latest Quote has been refused.
C3_Witness ==
    /\ source = "akshare_em"
    /\ cb["akshare_em"].failures = FailureThreshold
    /\ Blocked("akshare_em")
    /\ hist["akshare_em"].went = "refused"

\* C4 as stated: a Quote that returns its quote leaves the source's failure
\* count at zero.
C4_SuccessfulQuoteResets ==
    [][ \A w \in Workers :
          ( /\ pc[w] = "lookup" /\ pc'[w] = "idle"
            /\ loc[w].op \in { "ak", "ef" }
            /\ loc[w].df = "good" )
          => cb'[loc[w].key].failures = 0 ]_vars

\* C4: a Quote whose upstream refresh returns a frame puts the source back to
\* Closed with a zero failure count at that moment (a Quote answered from the
\* cache records nothing); and a Quote that begins on an Open source whose
\* cooldown has elapsed is not refused, so that when its refresh returns a
\* frame the source is Closed with a zero count.
C4_RefreshSuccessResets ==
    [][ /\ \A w \in Workers :
             (loc'[w].refreshed /\ ~loc[w].refreshed /\ loc'[w].op \in { "ak", "ef" })
             => cb'[loc'[w].key] = CbInit
        /\ \A k \in Keys :
             (source = k /\ CallBegins /\ CbState(cb[k], now) = "half_open")
             => hist'[k].went # "refused" ]_vars

\* A probe, begun after the cooldown of an Open source, has had its refresh
\* answered, and the source is Closed with no failure on record.
C4_Witness ==
    \E w \in Workers :
      /\ pc[w] = "store"
      /\ loc[w].probe /\ loc[w].refreshed
      /\ loc[w].op \in { "ak", "ef" }
      /\ cb[loc[w].key] = CbInit

\* C5 as stated: an upstream request for a key goes out only if the key's
\* cache has never been filled or its last fill is at least ttl seconds old.
C5_NoRefreshWithinTtlOfFill ==
    \A w \in Workers :
      loc[w].sinceFill = -1 \/ loc[w].sinceFill >= Ttl(loc[w].key)

\* C6 as stated: at most one upstream request for a key is outstanding.
C6_SingleFlight ==
    \A k \in Keys :
      Cardinality({ w \in Workers : pc[w] = "fetching" /\ loc[w].key = k }) <= 1

\* C7 as stated: a call answered from the cache has read a payload and a
\* timestamp written by one and the same refresh.
C7_ReadersSeeOneRefresh ==
    \A w \in Workers : loc[w].hit => ~loc[w].torn

\* C9 as stated: an upstream request for a key goes out only if no refresh of
\* the key has failed or come back empty, or the last such refresh is at least
\* ttl seconds old.
C9_NoRefreshWithinTtlOfFailure ==
    \A w \in Workers :
      loc[w].sinceFail = -1 \/ loc[w].sinceFail >= Ttl(loc[w].key)

----------------------------------------------------------------------------
(* Properties of a batch (SpecBatch) *)

\* C8 as stated: when a batch of five symbols is done, one upstream snapshot
\* request has been made since it began and at least four of its quotes have
\* been answered from the cache.
C8_OneSnapshotFetchPerBatch ==
    (batch.phase = "done" /\ batch.codes = 5) =>
        (batch.fetches = 1 /\ batch.hits >= 4)

----------------------------------------------------------------------------
(* Properties of the Tushare rate limit (SpecRate) *)

\* The upstream calls made in the 60 seconds that begin with call i.
CallsInWindowFrom(i) ==
    { j \in 1..Len(apiLog) :
        apiLog[i] <= apiLog[j] /\ apiLog[j] < apiLog[i] + WindowSeconds }

\* C10 as stated: no 60-second window holds more upstream calls than
\* rate_limit_per_minute.
C10_RollingWindowLimit ==
    \A i \in 1..Len(apiLog) : Cardinality(CallsInWindowFrom(i)) <= ts.rateLimit

----------------------------------------------------------------------------
(* Properties of the manager's Quote (SpecRoute) *)

\* An entry of the preference list that names a source of the manager.
IsKnownSource(raw) == Branch(StripLower(raw)).fetcher # "none"

\* The sources of the last request's preference list, in its order.
KnownSources == [ k \in 1..Len(SelectSeq(quoteOp.pref, IsKnownSource)) |->
                    StripLower(SelectSeq(quoteOp.pref, IsKnownSource)[k]) ]

\* The first call whose answer is a quote with a price; 0 when there is none.
FirstValid ==
    LET ok == { k \in 1..Len(KnownSources) : quoteOp.resp[k] = "quote" }
    IN  IF ok = {} THEN 0 ELSE CHOOSE k \in ok : \A j \in ok : k <= j

\* The request went through the sources in order up to the first valid quote.
FailoverInOrder ==
    LET n == IF FirstValid = 0 THEN Len(KnownSources) ELSE FirstValid
    IN  /\ quoteOp.called = [ k \in 1..n |-> Branch(KnownSources[k]) ]
        /\ quoteOp.result = IF FirstValid = 0 THEN "nil" ELSE KnownSources[FirstValid]

\* C11 as stated: for a ticker that is not a US one, Quote asks the sources of
\* the preference list in order, returns the first quote that has a price
\* without asking a later source, and returns nil when none gives one.
C11_QuoteFailoverInOrder ==
    quoteOp.op = "quote" /\ ~IsUsStock(quoteOp.code) => FailoverInOrder

\* C11, amended: that holds while realtime quotes are enabled; with the
\* feature disabled Quote returns nil and asks no source.
C11_EnabledQuoteFailoverInOrder ==
    quoteOp.op = "quote" /\ ~IsUsStock(quoteOp.code) =>
        IF quoteOp.enabled THEN FailoverInOrder
        ELSE quoteOp.result = "nil" /\ quoteOp.called = << >>

\* The first source gave nothing usable and the second one's quote is returned.
C11_Witness ==
    /\ quoteOp.op = "quote" /\ quoteOp.enabled /\ ~IsUsStock(quoteOp.code)
    /\ Len(quoteOp.called) = 2
    /\ quoteOp.resp[1] # "quote"
    /\ quoteOp.result = StripLower(quoteOp.pref[2])

\* C12: for every ticker of the US shape, one to five letters and possibly a
\* dot with one or two letters, Quote calls the foreign-market fetcher only,
\* never a domestic source.
C12_UsOnlyForeignFetcher ==
    quoteOp.op = "quote" /\ IsUsStock(quoteOp.code) =>
        \A k \in 1..Len(quoteOp.called) : quoteOp.called[k] = YfinanceCall

----------------------------------------------------------------------------
(* Properties of the TaskService (SpecSvc, SpecSvcLive) *)

Terminal == { "completed", "failed" }

\* The work items that are running now, in whatever pool.
ExecutingAnywhere ==
    { r \in 1..Len(runs) : runs[r].stage \in { "init", "pipeline" } }

\* C13: once Submit has returned a task id, the ledger holds an entry for it,
\* running or later, and GetTaskStatus does not report it unknown.
C13_ReturnedIdIsKnown ==
    \A r \in 1..Len(runs) :
        runs[r].returned => GetTaskStatus(runs[r].id) \in { "running" } \cup Terminal

\* C14: the ledger entry of a task id goes from running to completed or failed
\* at most once; a completed or failed entry never changes again.
C14_LedgerMonotone ==
    [][ \A id \in TaskIds :
          /\ tasks[id] \in Terminal => tasks'[id] = tasks[id]
          /\ tasks[id] = "unknown" => tasks'[id] \in { "unknown", "running" }
          /\ tasks[id] = "running" => tasks'[id] # "unknown" ]_vars

\* Every analysis handed to a pool has ended and its entry is completed or failed.
AllEnded ==
    \A r \in 1..Len(runs) :
        runs[r].stage # "new" => runs[r].stage = "done" /\ tasks[runs[r].id] \in Terminal

\* C15: every analysis handed to the pool eventually has its ledger entry
\* completed or failed, whatever the pipeline call does: time and again, all
\* the analyses handed over so far have ended that way.
C15_SubmittedEventuallyEnds == []<>AllEnded

\* Two analyses with different ids have ended, one completed and one failed.
C15_Witness ==
    \E r1, r2 \in 1..Len(runs) :
        /\ runs[r1].stage = "done" /\ runs[r2].stage = "done"
        /\ tasks[runs[r1].id] = "completed" /\ tasks[runs[r2].id] = "failed"

\* C16: at any time at most max_workers analyses of the TaskService are running.
C16_AtMostMaxWorkers == Cardinality(ExecutingAnywhere) <= TaskMaxWorkers

----------------------------------------------------------------------------
(* Properties of the notification send (SpecNotify) *)

\* The channels of the last send: the configured ones and those of the
\* source message.
EnabledChannels == Range(sendOp.channels) \cup sendOp.context

PostsTo(ch) == { i \in 1..Len(sendOp.posts) : sendOp.posts[i].channel = ch }

\* The channel got the message: something was posted to it and every chunk
\* posted has an acknowledged post.
Delivered(ch) ==
    /\ PostsTo(ch) # {}
    /\ \A i \in PostsTo(ch) :
         \E j \in PostsTo(ch) :
             /\ sendOp.posts[j].chunk = sendOp.posts[i].chunk
             /\ sendOp.posts[j].fate = "ok"

Attempted(ch) ==
    IF ch \in ContextChannels THEN PostsTo(ch) # {}
    ELSE \E i \in 1..Len(sendOp.attempted) : sendOp.attempted[i] = ch

\* C18: within one send every enabled channel is attempted, whether or not
\* the channels before it failed or raised.
C18_EveryEnabledChannelAttempted ==
    sendOp.op = "send" => \A ch \in EnabledChannels : Attempted(ch)

\* WeChat's post raised, Feishu's formatting raised before any post, and
\* PushPlus was still posted to.
C18_Witness ==
    /\ sendOp.op = "send"
    /\ sendOp.channels = ChannelOrder
    /\ \E i \in PostsTo("wechat") : sendOp.posts[i].fate = "raise"
    /\ PostsTo("feishu") = {}
    /\ PostsTo("pushplus") # {}

\* C19: within one send the message, or each chunk of it, is posted to a
\* channel at most once; nothing is posted a second time after a failed post.
C19_PostedAtMostOncePerChannel ==
    \A i, j \in 1..Len(sendOp.posts) :
        /\ sendOp.posts[i].channel = sendOp.posts[j].channel
        /\ sendOp.posts[i].chunk = sendOp.posts[j].chunk
        => i = j

----------------------------------------------------------------------------
(* Properties of chunked sending (SpecChunk) *)

\* C20: every chunk that is sent, its page marker included, is at most as long
\* in UTF-8 bytes as the budget of the channel.
C20_EveryChunkWithinBudget ==
    chunkOp.op = "chunked" =>
        \A i \in 1..Len(chunkOp.sent) : chunkOp.sent[i] <= chunkOp.maxBytes

\* The pieces of all messages, in the order they are posted.
RECURSIVE Flat(_)
Flat(posted) == IF posted = << >> THEN << >> ELSE Head(posted).pieces \o Flat(Tail(posted))

\* The pieces are the sections in their order, each from its first byte to its
\* last or to a truncation notice.
InOrder(flat, secs) ==
    /\ flat # << >>
    /\ flat[1].sec = 1 /\ flat[1].lo = 0
    /\ { flat[k].sec : k \in 1..Len(flat) } = 1..Len(secs)
    /\ \A k \in 1..Len(flat) :
         LET p    == flat[k]
             ends == p.note \/ p.hi = secs[p.sec]
         IN  IF k = Len(flat) THEN ends
             ELSE \/ /\ flat[k + 1].sec = p.sec
                     /\ flat[k + 1].lo = p.hi
                     /\ ~p.note
                  \/ /\ flat[k + 1].sec = p.sec + 1
                     /\ flat[k + 1].lo = 0
                     /\ ends

\* C21: the chunks of a chunked notification, taken in the order they are sent
\* and without their page markers, hold the sections of the message in their
\* order, none lost and none twice, but for text replaced by the truncation
\* notice.
C21_ChunksReproduceMessage ==
    chunkOp.op = "chunked" =>
        /\ InOrder(Flat(chunkOp.posted), Sections(chunkOp.split, chunkOp.parts))
        /\ \A i \in 1..Len(chunkOp.posted) : chunkOp.posted[i].cut = 0

\* C22: when a message goes out in N > 1 chunks, the i-th chunk sent ends with
\* the marker (i/N), on every channel.
C22_EveryChunkHasItsMarker ==
    chunkOp.op = "chunked" /\ Len(chunkOp.posted) > 1 =>
        \A i \in 1..Len(chunkOp.posted) :
            chunkOp.posted[i].marker = << i, Len(chunkOp.posted) >>

----------------------------------------------------------------------------
(* Properties of a fetcher operation (SpecFetch) *)

\* The attempt or the operation has been left, by return or by exception.
Left == fetchOp.pc \in { "decide", "done" }

\* A login has been called and no logout since.
SessionOpen ==
    \E i \in 1..Len(fetchOp.log) :
        /\ fetchOp.log[i].call = "login"
        /\ \A j \in (i + 1)..Len(fetchOp.log) : fetchOp.log[j].call # "logout"

\* C23: an operation of the Baostock source that has logged in has called
\* logout by the time it returns or raises, whichever way it is left.
C23_SessionReleasedOnEveryExit == Left => ~SessionOpen

\* A Baostock operation has been left with an exception after a login: the
\* query failed, or the login itself did.
C23_Witness ==
    /\ fetchOp.pc = "done"
    /\ fetchOp.fetcher = "BaostockFetcher"
    /\ fetchOp.result \in { "raised", "nil" }
    /\ \E i \in 1..Len(fetchOp.log) :
         fetchOp.log[i].call = "query" /\ fetchOp.log[i].outcome \in Raises

\* The outcome of the data call that ended attempt a, "none" when the attempt
\* made none.
DataCalls == { "call", "query", "em", "sina", "tx" }

LastOutcome(a) ==
    LET idx == { i \in 1..Len(fetchOp.log) :
                   fetchOp.log[i].attempt = a /\ fetchOp.log[i].call \in DataCalls }
    IN  IF idx = { } THEN "none"
        ELSE fetchOp.log[CHOOSE i \in idx : \A j \in idx : j <= i].outcome

Attempts == { fetchOp.log[i].attempt : i \in 1..Len(fetchOp.log) }

\* C24: the upstream call of a fetcher is attempted at most 3 times; an attempt
\* that ends in a network or timeout error is followed by another one (up to
\* the third), after a wait that grows and never exceeds 30 s; an attempt
\* that ends in another error is the last one.
C24_RetryOnNetworkErrorsOnly ==
    fetchOp.pc = "done" /\ fetchOp.op = "daily" =>
        /\ \A a \in Attempts : a <= 3
        /\ \A a \in Attempts :
             /\ LastOutcome(a) \in NetworkErrors /\ a < 3 => a + 1 \in Attempts
             /\ LastOutcome(a) \in { "ValueError", "errcode" } => a + 1 \notin Attempts
        /\ \A k \in 1..Len(fetchOp.waits) :
             /\ fetchOp.waits[k] <= 30
             /\ k > 1 => fetchOp.waits[k - 1] <= fetchOp.waits[k]

----------------------------------------------------------------------------
(* Properties of the manager's Chips (SpecChips) *)

\* The chip fetches made of the source with key k, in their order.
RECURSIVE FetchesOf(_, _)
FetchesOf(k, log) ==
    IF log = << >> THEN << >>
    ELSE SelectSeq(Head(log).calls, LAMBDA c : c.key = k) \o FetchesOf(k, Tail(log))

\* A fetch that failed: the upstream call or the fetcher raised.
ChipFailed(c) == c.outcome \in { "error", "raise" }

\* C25: a chip source whose last N fetches have all failed is not called for
\* Chips again until the cooldown has passed since the last of them.
C25_ChipBreakerStopsCalls ==
    \A k \in ChipKeys :
        LET f == FetchesOf(k, chipLog)
        IN  \A n \in (FailureThreshold + 1)..Len(f) :
                (\A j \in (n - FailureThreshold)..(n - 1) : ChipFailed(f[j]))
                    => f[n].time - f[n - 1].time >= Cooldown

----------------------------------------------------------------------------
(* Properties of the prefetch (SpecPrefetch) *)

\* A fetcher call of the prefetch went to a source that fetches the whole
\* market.
CalledBulk ==
    \E i \in 1..Len(prefetchOp.called) :
        prefetchOp.called[i].source \in { "efinance", "em", "tushare" }

\* C26: the prefetch calls no fetcher unless the first source of the
\* preference list fetches the whole market and there are at least 5 codes;
\* when both hold it makes exactly one Quote request, which goes to such a
\* source and so fills its snapshot cache.
C26_PrefetchOnlyForBulkFirst ==
    prefetchOp.op = "prefetch" =>
        LET both == /\ StripLower(prefetchOp.pref[1]) \in BulkSources
                    /\ prefetchOp.n >= PrefetchMinCodes
        IN  /\ ~both => prefetchOp.called = << >>
            /\ both => prefetchOp.quotes = 1 /\ CalledBulk

----------------------------------------------------------------------------
(* Properties of the command line programs (SpecCli) *)

\* C27: whenever a keyboard interrupt ends the process, in whatever run mode,
\* the exit code is 130.
C27_InterruptExits130 ==
    (cli.at = "exited" /\ cli.interrupted) => cli.exit = 130

\* C28: a run that ended on a runtime error exits with 1, and the exit code
\* is 0 only when the run succeeded.
C28_ErrorExits1 ==
    cli.at = "exited" =>
        /\ (cli.failed /\ ~cli.interrupted) => cli.exit = 1
        /\ cli.exit = 0 => ~cli.failed

\* C29: no exception of a scheduled full analysis leaves the scheduled task:
\* after a failed run the scheduler is still there for the later runs, and
\* only a keyboard interrupt ends it.
C29_FailedRunKeepsScheduler ==
    (cli.prog = "main" /\ ModeOf(cli) = "scheduler") =>
        /\ cli.escaped = 0
        /\ cli.failures > 0 => (cli.at = "scheduler" \/ cli.interrupted)

\* A scheduled run failed and the scheduler performed a later run.
C29_Witness ==
    /\ cli.at = "scheduler"
    /\ cli.failures > 0
    /\ ~cli.failed
    /\ cli.runs > cli.failures

\* C30: after startup no Config field but stock_list differs from what was
\* loaded, and stock_list differs only after a hot reload.
C30_ConfigFrozenButStockList ==
    /\ cli.config.single_stock_notify = cli.loaded.single_stock_notify
    /\ cli.config.schedule_enabled = cli.loaded.schedule_enabled
    /\ cli.config.webui_enabled = cli.loaded.webui_enabled
    /\ cli.config.stock_list # cli.loaded.stock_list => cli.reloads > 0

----------------------------------------------------------------------------
(* Properties of a fetcher's Daily (SpecFetcherDaily) *)

\* C31: every series a fetcher's Daily returns has strictly increasing dates,
\* no date twice.
C31_SeriesStrictlyIncreasing ==
    dailyOp.kind = "return" =>
        \A i \in 1..Len(dailyOp.df) : \A j \in 1..Len(dailyOp.df) :
            i < j => dailyOp.df[i].date < dailyOp.df[j].date

----------------------------------------------------------------------------
(* Properties of the fetchers' rate limit (SpecGate) *)

\* C32: any two consecutive upstream requests of one source are at least
\* sleep_min seconds apart, several threads using the source included.
C32_RequestsSleepMinApart ==
    \A i \in 1..Len(gate.requests) - 1 :
        gate.requests[i + 1] - gate.requests[i] >= SleepMin

----------------------------------------------------------------------------
(* Properties of the AkshareFetcher's sub-sources (SpecSub) *)

\* The upstream requests made on the path of (src, kind), in their order.
RequestsOf(src, kind) ==
    SelectSeq(sub.log, LAMBDA e : e.src = src /\ e.kind = kind
                                  /\ e.outcome \in { "ok", "fail" })

\* C33: every request of a sub-source is recorded under the key that was
\* checked before it, and a sub-source whose last N requests have all failed
\* is not requested again until the cooldown has passed.
C33_SubSourceKeysAgree ==
    /\ \A i \in 1..Len(sub.log) :
           sub.log[i].outcome \in { "ok", "fail" }
               => sub.log[i].recorded = sub.log[i].checked
    /\ \A src \in SubSources, kind \in CodeKinds :
           LET f == RequestsOf(src, kind)
           IN  \A n \in (FailureThreshold + 1)..Len(f) :
                   (\A j \in (n - FailureThreshold)..(n - 1) : f[j].outcome = "fail")
                       => f[n].time - f[n - 1].time >= Cooldown

----------------------------------------------------------------------------
(* Properties of run_full_analysis (SpecFullRun) *)

\* C34: a full analysis with the market review enabled has run the review by
\* its end, whatever errors the per-symbol phase produced.
C34_ReviewAfterSymbols ==
    (fullRun.at = "done" /\ ReviewEnabled(fullRun.in)) => fullRun.review # "none"

----------------------------------------------------------------------------
(* Properties of the character-limited channels (SpecSplit) *)

\* C35: every part sent to a character-limited channel is within the
\* channel's limit: 4096 characters for a Discord embed description, 1024
\* for a Pushover message.
C35_PartsWithinLimit ==
    \A i \in 1..Len(splitOp.parts) :
        /\ splitOp.channel = "discord" => splitOp.parts[i] <= DiscordLimit
        /\ splitOp.channel = "pushover" => splitOp.parts[i] <= PushoverMaxLength

----------------------------------------------------------------------------
(* Properties of the Telegram sender (SpecTelegram) *)

\* C36: when Telegram rejects a message with a parse error, the message is
\* posted once more, as plain text, and the send succeeds exactly when that
\* second post is accepted.
C36_ParseErrorRetriedOnce ==
    (tgOp.op = "send" /\ ~TgAccepted(tgOp.posts[1].answer) /\ tgOp.posts[1].answer.parse) =>
        /\ Len(tgOp.posts) = 2
        /\ tgOp.posts[2].mode = "plain"
        /\ tgOp.posts[2].text = tgOp.text
        /\ tgOp.result = "True" <=> TgAccepted(tgOp.posts[2].answer)

----------------------------------------------------------------------------
(* Properties of the schedule mode (SpecSched) *)

\* C37: in schedule mode the configuration decides whether a full analysis
\* runs at startup: with the immediate run turned off, the first run is the
\* one at the scheduled time.
C37_ImmediateRunConfigurable ==
    sched.runs # << >> =>
        /\ sched.wantImmediate => sched.runs[1].kind = "immediate"
        /\ ~sched.wantImmediate =>
               /\ sched.runs[1].kind = "scheduled"
               /\ sched.runs[1].time % DaySlots = sched.schedule_time

----------------------------------------------------------------------------
(* Properties of the chunked senders' result (SpecChunkedSend) *)

\* C38: a chunked send reports success only if every chunk of the message
\* was accepted by the channel: never after a chunk was rejected or its
\* request raised.
C38_SuccessOnlyIfAllAccepted ==
    (chunkSend.op = "sent" /\ chunkSend.ret /\ ~chunkSend.raised) =>
        \A i \in 1..Len(chunkSend.replies) : chunkSend.replies[i] = "ok"

----------------------------------------------------------------------------
(* Task ids of the submits (SpecSvc) *)

\* C39: two distinct submits are assigned distinct task ids, submits of the
\* same code made at the same moment included, so no two tasks share one
\* ledger entry.
C39_TaskIdsDistinct ==
    \A i, j \in 1..Len(runs) : i # j => runs[i].id # runs[j].id

----------------------------------------------------------------------------
(* Properties of concurrent Baostock operations (SpecBsq) *)

\* C40: when several Baostock operations run side by side, every query runs
\* while the login session is live: none runs after the logout of another
\* operation closed the session.
C40_QueriesInLiveSession ==
    \A q \in bsq.queries : q.live

====
